---- MODULE Spec2Model ----
(***************************************************************************)
(* A model of the ADa dialog layer (ambler289/ada_ui): theme composition,  *)
(* backend fallback chains, list selection, and the bulk parameter editor  *)
(* with its value formatting and parsing.                                  *)
(*                                                                         *)
(* Python strings are modelled as sequences of one-character strings, so   *)
(* that strip(), lower(), replace(), split() and float() are computed      *)
(* character by character as the interpreter computes them.                *)
(***************************************************************************)
EXTENDS Integers, Sequences, FiniteSets, TLC

VARIABLES
    component,  \* which part of the library the behaviour exercises
    pvIn,       \* bulk editor value functions: the call's arguments
    pvText,     \* the text handed to _parse_value (typed, or formatted)
    pvOut,      \* the value _parse_value returned
    pvPc,       \* "current" -> "text" -> "parsed"
    beImpl,     \* bulk_edit: "ui" (WinForms form) or "shim" (menu loop)
    beParams,   \* bulk_edit: editable_params
    beRows,     \* bulk_edit: per parameter, the editor control / rows[i]["new"]
    beItems,    \* bulk_edit (shim): items, the menu on show
    beSel,      \* bulk_edit: how the session ended (DialogResult / sel)
    beResult,   \* bulk_edit: what the call returned
    bePc,       \* bulk_edit: "open" while the session runs, then "returned"
    beAsk,      \* bulk_edit (shim): the menu position last selected, the answer given
    slCall,     \* list select: implementation, items, flags, what is loadable
    slShown,    \* list select: the ListBox entries (text, original item)
    slSelected, \* list select: positions selected, in selection order
    slFilter,   \* list select (v6): the filter box text
    slHow,      \* list select: how the dialog ended
    slResult,   \* list select: what the call returned
    slPc,       \* list select: "called" -> "open" -> "returned"
    env,        \* backends: what can be imported and which calls work now
    FORMS,      \* backends: ada_brand_bulk_editor_shim.FORMS ("unset" before import)
    lastCall,   \* backends: the last dialog call, the tiers it tried and used
    thIn,       \* theme: the window template, Theme.xaml, the host's lookup
    thScope,    \* theme: per key, where win.Resources resolves it from
    thPc,       \* theme: "idle" -> "done" (window returned) or "raised"
    dgCall,     \* dialogs: the entry point called, its arguments, what the host has
    dgOut,      \* dialogs: the window shown, the user's closing event, the result
    dgPc,       \* dialogs: "called" -> "returned"
    fdIn,       \* _find: the tree under scope, the name, what FindName does
    fdQueue,    \* _find: queue, the nodes waiting to be visited
    fdResult,   \* _find: what the call returned
    fdPc,       \* _find: "direct" -> "walk" -> "returned"
    pfForms,    \* ui shims: the forms object handed to install_ui_shims
    pfCalls,    \* ui shims: how often install_ui_shims(forms) was called
    pfLast      \* ui shims: the last forms.alert call and what answered it

parseVars == <<pvIn, pvText, pvOut, pvPc>>
bulkVars == <<beImpl, beParams, beRows, beItems, beSel, beResult, bePc, beAsk>>
selectVars == <<slCall, slShown, slSelected, slFilter, slHow, slResult, slPc>>
backendVars == <<env, FORMS, lastCall>>
themeVars == <<thIn, thScope, thPc>>
dialogVars == <<dgCall, dgOut, dgPc>>
findVars == <<fdIn, fdQueue, fdResult, fdPc>>
patchVars == <<pfForms, pfCalls, pfLast>>
vars == <<component, parseVars, bulkVars, selectVars, backendVars, themeVars, dialogVars, findVars, patchVars>>

\* what an action of one part leaves alone
outsideParse == <<component, bulkVars, selectVars, backendVars, themeVars, dialogVars, findVars, patchVars>>
outsideBulk == <<component, parseVars, selectVars, backendVars, themeVars, dialogVars, findVars, patchVars>>
outsideSelect == <<component, parseVars, bulkVars, backendVars, themeVars, dialogVars, findVars, patchVars>>
outsideBackend == <<component, parseVars, bulkVars, selectVars, themeVars, dialogVars, findVars, patchVars>>
outsideDialog == <<component, parseVars, bulkVars, selectVars, backendVars, themeVars, findVars, patchVars>>
outsideTheme == <<component, parseVars, bulkVars, selectVars, backendVars, dialogVars, findVars, patchVars>>
outsideFind == <<component, parseVars, bulkVars, selectVars, backendVars, themeVars, dialogVars, patchVars>>
outsidePatch == <<component, parseVars, bulkVars, selectVars, backendVars, themeVars, dialogVars, findVars>>

----------------------------------------------------------------------------
(* Bounds of the model.                                                    *)

MaxTextLen == 3        \* longest free text enumerated over TextAlphabet
MaxPad == 1            \* blanks put around a token
MaxSmallMantissa == 30 \* current values m * 10^e with m up to this ...
MinValueExp == 8       \* ... and -MinValueExp <= e <= MaxValueExp
MaxValueExp == 1

----------------------------------------------------------------------------
(* Python str helpers.                                                     *)

LowerLetters == <<"a","b","c","d","e","f","g","h","i","j","k","l","m",
                  "n","o","p","q","r","s","t","u","v","w","x","y","z">>
UpperLetters == <<"A","B","C","D","E","F","G","H","I","J","K","L","M",
                  "N","O","P","Q","R","S","T","U","V","W","X","Y","Z">>
Digits == <<"0","1","2","3","4","5","6","7","8","9">>

Whitespace == {" ", "\t"}

IsDigit(c) == \E i \in 1..10 : Digits[i] = c
DigitVal(c) == (CHOOSE i \in 1..10 : Digits[i] = c) - 1

\* str.lower() on one character
LowerChar(c) ==
    IF \E i \in 1..26 : UpperLetters[i] = c
    THEN LowerLetters[CHOOSE i \in 1..26 : UpperLetters[i] = c]
    ELSE c

\* str.lower()
Lower(s) == [i \in 1..Len(s) |-> LowerChar(s[i])]

RECURSIVE LStrip(_)
LStrip(s) ==
    IF s # <<>> /\ Head(s) \in Whitespace THEN LStrip(Tail(s)) ELSE s

RECURSIVE RStrip(_)
RStrip(s) ==
    IF s # <<>> /\ s[Len(s)] \in Whitespace
    THEN RStrip(SubSeq(s, 1, Len(s) - 1))
    ELSE s

\* str.strip()
Strip(s) == RStrip(LStrip(s))

\* str.replace(",", ".")
ReplaceCommaDot(s) == [i \in 1..Len(s) |-> IF s[i] = "," THEN "." ELSE s[i]]

RECURSIVE TakeToken(_)
TakeToken(s) ==
    IF s = <<>> \/ Head(s) \in Whitespace
    THEN <<>>
    ELSE <<Head(s)>> \o TakeToken(Tail(s))

\* str.split(): the list of whitespace-delimited tokens
RECURSIVE Split(_)
Split(s) ==
    LET t == LStrip(s)
        tok == TakeToken(t)
    IN IF t = <<>> THEN <<>>
       ELSE <<tok>> \o Split(SubSeq(t, Len(tok) + 1, Len(t)))

----------------------------------------------------------------------------
(* Numbers.  A Python float is held as a decimal m * 10^e, normalised so   *)
(* that m has no trailing zero (0 is m = 0, e = 0); kind tells inf and nan *)
(* from the finite values.                                                 *)

RECURSIVE Pow10(_)
Pow10(k) == IF k <= 0 THEN 1 ELSE 10 * Pow10(k - 1)

Abs(x) == IF x < 0 THEN -x ELSE x

RECURSIVE NDigits(_)
NDigits(n) == IF n < 10 THEN 1 ELSE 1 + NDigits(n \div 10)

RECURSIVE NormDec(_, _)
NormDec(m, e) ==
    IF m = 0 THEN [kind |-> "fin", m |-> 0, e |-> 0]
    ELSE IF m % 10 = 0 THEN NormDec(m \div 10, e + 1)
    ELSE [kind |-> "fin", m |-> m, e |-> e]

Inf(neg) == [kind |-> "inf", m |-> IF neg THEN -1 ELSE 1, e |-> 0]
NaN == [kind |-> "nan", m |-> 0, e |-> 0]

\* float.is_integer()
IsInteger(n) == n.kind = "fin" /\ n.e >= 0

RECURSIVE DigitsToInt(_)
DigitsToInt(s) ==
    IF s = <<>> THEN 0
    ELSE 10 * DigitsToInt(SubSeq(s, 1, Len(s) - 1)) + DigitVal(s[Len(s)])

RECURSIVE IntToDigits(_)
IntToDigits(n) ==
    IF n < 10 THEN <<Digits[n + 1]>>
    ELSE IntToDigits(n \div 10) \o <<Digits[(n % 10) + 1]>>

AllDigits(s) == \A i \in 1..Len(s) : IsDigit(s[i])

IndexOf(s, cs) ==
    IF \E i \in 1..Len(s) : s[i] \in cs
    THEN CHOOSE i \in 1..Len(s) : s[i] \in cs /\ \A j \in 1..(i - 1) : s[j] \notin cs
    ELSE 0

\* the position of the last digit of s that is not "0" (0: there is none)
LastNonZero(s) ==
    IF \E i \in 1..Len(s) : s[i] # "0"
    THEN CHOOSE i \in 1..Len(s) : s[i] # "0" /\ \A j \in (i + 1)..Len(s) : s[j] = "0"
    ELSE 0

\* float(tok) for a token without surrounding whitespace: [ok, num].
\* Grammar: [sign] (inf | infinity | nan | digits [. digits] [e [sign] digits]),
\* ASCII only; a finite value beyond the double range becomes inf or 0
\* (decided by the decimal magnitude of the value).
PyFloat(tok) ==
    LET signed == tok # <<>> /\ tok[1] \in {"+", "-"}
        neg == signed /\ tok[1] = "-"
        body == IF signed THEN Tail(tok) ELSE tok
        lw == Lower(body)
        ePos == IndexOf(body, {"e", "E"})
        mant == IF ePos = 0 THEN body ELSE SubSeq(body, 1, ePos - 1)
        expo == IF ePos = 0 THEN <<>> ELSE SubSeq(body, ePos + 1, Len(body))
        expSigned == expo # <<>> /\ expo[1] \in {"+", "-"}
        expDigits == IF expSigned THEN Tail(expo) ELSE expo
        expOk == ePos = 0 \/ (expDigits # <<>> /\ AllDigits(expDigits))
        dot == IndexOf(mant, {"."})
        ip == IF dot = 0 THEN mant ELSE SubSeq(mant, 1, dot - 1)
        fp == IF dot = 0 THEN <<>> ELSE SubSeq(mant, dot + 1, Len(mant))
        mantOk == AllDigits(ip) /\ AllDigits(fp) /\ Len(ip) + Len(fp) >= 1
        expVal == IF ePos = 0 THEN 0
                  ELSE (IF expSigned /\ expo[1] = "-" THEN -1 ELSE 1)
                       * DigitsToInt(expDigits)
        ds == ip \o fp
        mag == DigitsToInt(SubSeq(ds, 1, LastNonZero(ds)))
        fin == NormDec(IF neg THEN -mag ELSE mag,
                       expVal - Len(fp) + (Len(ds) - LastNonZero(ds)))
        top == NDigits(Abs(fin.m)) + fin.e
    IN IF lw \in {<<"i","n","f">>, <<"i","n","f","i","n","i","t","y">>}
       THEN [ok |-> TRUE, num |-> Inf(neg)]
       ELSE IF lw = <<"n","a","n">>
       THEN [ok |-> TRUE, num |-> NaN]
       ELSE IF mantOk /\ expOk
       THEN [ok |-> TRUE,
             num |-> IF fin.m # 0 /\ top > 309 THEN Inf(neg)
                     ELSE IF fin.m # 0 /\ top < -323 THEN NormDec(0, 0)
                     ELSE fin]
       ELSE [ok |-> FALSE, num |-> NaN]

----------------------------------------------------------------------------
(* Python values that cross the bulk editor's functions: None, bool,       *)
(* float and str, as one record shape so that any two can be compared.     *)

PyNone == [t |-> "none", b |-> FALSE, n |-> NormDec(0, 0), s |-> <<>>]
PyBool(b) == [t |-> "bool", b |-> b, n |-> NormDec(0, 0), s |-> <<>>]
PyNum(n) == [t |-> "float", b |-> FALSE, n |-> n, s |-> <<>>]
PyStr(s) == [t |-> "str", b |-> FALSE, n |-> NormDec(0, 0), s |-> s]

\* bool(v)
Truthy(v) ==
    CASE v.t = "none" -> FALSE
      [] v.t = "bool" -> v.b
      [] v.t = "float" -> ~(v.n.kind = "fin" /\ v.n.m = 0)
      [] v.t = "str" -> v.s # <<>>

\* The precision "{:g}" uses when the format gives none.
GPrecision == 6

Zeros(k) == [i \in 1..k |-> "0"]

SignOf(n) == IF n.m < 0 THEN <<"-">> ELSE <<>>

\* "{:.0f}".format(vv) for an integral vv
Fmt0f(n) == SignOf(n) \o IntToDigits(Abs(n.m)) \o Zeros(n.e)

\* vv rounded to p significant digits, ties to even (the rounding of
\* "{:g}" on the exact value of the double)
RoundSig(n, p) ==
    LET a == Abs(n.m)
        nd == NDigits(a)
        drop == nd - p
        q == a \div Pow10(drop)
        r == a % Pow10(drop)
        half == 5 * Pow10(drop - 1)
        up == r > half \/ (r = half /\ q % 2 = 1)
        q2 == IF up THEN q + 1 ELSE q
    IN IF nd <= p THEN n
       ELSE NormDec(IF n.m < 0 THEN -q2 ELSE q2, n.e + drop)

\* "{:g}".format(vv) for a finite vv
FmtG(n) ==
    LET r == RoundSig(n, GPrecision)
        a == Abs(r.m)
        nd == NDigits(a)
        ds == IntToDigits(a)
        X == nd - 1 + r.e
        xd == IF Abs(X) < 10 THEN <<"0">> \o IntToDigits(Abs(X))
              ELSE IntToDigits(Abs(X))
    IN IF a = 0 THEN SignOf(n) \o <<"0">>
       ELSE IF X < -4 \/ X >= GPrecision
       THEN SignOf(n) \o <<ds[1]>>
            \o (IF nd > 1 THEN <<".">> \o Tail(ds) ELSE <<>>)
            \o <<"e">> \o (IF X < 0 THEN <<"-">> ELSE <<"+">>) \o xd
       ELSE IF r.e >= 0 THEN SignOf(n) \o ds \o Zeros(r.e)
       ELSE IF X >= 0
       THEN SignOf(n) \o SubSeq(ds, 1, X + 1) \o <<".">> \o SubSeq(ds, X + 2, nd)
       ELSE SignOf(n) \o <<"0", ".">> \o Zeros(-X - 1) \o ds

\* "{:.0f}".format(vv) if vv.is_integer() else "{:g}".format(vv)
FmtNumber(n) ==
    CASE n.kind = "inf" -> SignOf(n) \o <<"i","n","f">>
      [] n.kind = "nan" -> <<"n","a","n">>
      [] OTHER -> IF IsInteger(n) THEN Fmt0f(n) ELSE FmtG(n)

\* float(v): [ok, num]
ToFloat(v) ==
    CASE v.t = "float" -> [ok |-> TRUE, num |-> v.n]
      [] v.t = "bool" -> [ok |-> TRUE, num |-> NormDec(IF v.b THEN 1 ELSE 0, 0)]
      [] v.t = "str" -> IF Strip(v.s) = <<>> THEN [ok |-> FALSE, num |-> NaN]
                        ELSE PyFloat(Strip(v.s))
      [] OTHER -> [ok |-> FALSE, num |-> NaN]

\* repr(vv) of a float: the shortest digits, fixed notation for
\* 1e-4 <= |vv| < 1e16 and always with a fraction part
FmtRepr(n) ==
    LET a == Abs(n.m)
        nd == NDigits(a)
        ds == IntToDigits(a)
        X == nd - 1 + n.e
        xd == IF Abs(X) < 10 THEN <<"0">> \o IntToDigits(Abs(X))
              ELSE IntToDigits(Abs(X))
    IN CASE n.kind = "inf" -> SignOf(n) \o <<"i","n","f">>
         [] n.kind = "nan" -> <<"n","a","n">>
         [] OTHER ->
            IF a = 0 THEN <<"0", ".", "0">>
            ELSE IF X < -4 \/ X >= 16
            THEN SignOf(n) \o <<ds[1]>>
                 \o (IF nd > 1 THEN <<".">> \o Tail(ds) ELSE <<>>)
                 \o <<"e">> \o (IF X < 0 THEN <<"-">> ELSE <<"+">>) \o xd
            ELSE IF n.e >= 0 THEN SignOf(n) \o ds \o Zeros(n.e) \o <<".", "0">>
            ELSE IF X >= 0
            THEN SignOf(n) \o SubSeq(ds, 1, X + 1) \o <<".">> \o SubSeq(ds, X + 2, nd)
            ELSE SignOf(n) \o <<"0", ".">> \o Zeros(-X - 1) \o ds

\* str(v)
PyStrOf(v) ==
    CASE v.t = "str" -> v.s
      [] v.t = "bool" -> IF v.b THEN <<"T","r","u","e">> ELSE <<"F","a","l","s","e">>
      [] v.t = "none" -> <<"N","o","n","e">>
      [] OTHER -> FmtRepr(v.n)

----------------------------------------------------------------------------
(* The bulk editor's value functions.  The two characters outside ASCII    *)
(* that the token tables hold are written by their code points: "U2713" is *)
(* the check mark and "U2717" the ballot cross, each one character.        *)

TrueTokens ==
    { <<"y","e","s">>, <<"t","r","u","e">>, <<"1">>, <<"y">>, <<"t">>,
      <<"U2713">>, <<"c","h","e","c","k">>, <<"t","i","c","k">> }

FalseTokens ==
    { <<"n","o">>, <<"f","a","l","s","e">>, <<"0">>, <<"n">>, <<"f">>,
      <<"U2717">>, <<"c","r","o","s","s">>, <<"x">> }

\* _fmt_current with the unit appended without the separating space
FmtCurrentNoSpace(v, ptype, unit) ==
    IF v.t = "none" THEN <<>>
    ELSE IF ptype = "bool"
    THEN (IF Truthy(v) THEN <<"Y","e","s">> ELSE <<"N","o">>)
    ELSE IF ptype = "float"
    THEN (IF ToFloat(v).ok THEN FmtNumber(ToFloat(v).num) ELSE PyStrOf(v)) \o unit
    ELSE PyStrOf(v)

\* ada_brand_bulk_editor_shim._fmt_current
FmtCurrent(v, ptype, unit) ==
    IF v.t = "none" THEN <<>>
    ELSE IF ptype = "bool"
    THEN (IF Truthy(v) THEN <<"Y","e","s">> ELSE <<"N","o">>)
    ELSE IF ptype = "float"
    THEN (IF ToFloat(v).ok THEN FmtNumber(ToFloat(v).num) ELSE PyStrOf(v))
         \o (IF unit # <<>> THEN <<" ">> \o unit ELSE <<>>)
    ELSE PyStrOf(v)

\* _parse_value comparing the bool tokens without lower()
ParseValueCaseSensitive(ptype, unit, raw, keep_token) ==
    IF raw.t = "none" THEN keep_token
    ELSE LET txt == Strip(PyStrOf(raw))
         IN IF txt = <<>> THEN keep_token
            ELSE IF ptype = "bool"
            THEN (IF txt \in TrueTokens THEN PyBool(TRUE)
                  ELSE IF txt \in FalseTokens THEN PyBool(FALSE)
                  ELSE keep_token)
            ELSE IF ptype = "float"
            THEN (LET val_txt == Split(ReplaceCommaDot(txt))[1]
                  IN IF PyFloat(val_txt).ok THEN PyNum(PyFloat(val_txt).num)
                     ELSE keep_token)
            ELSE PyStr(txt)

\* _parse_value without replace(",", ".")
ParseValueNoComma(ptype, unit, raw, keep_token) ==
    IF raw.t = "none" THEN keep_token
    ELSE LET txt == Strip(PyStrOf(raw))
         IN IF txt = <<>> THEN keep_token
            ELSE IF ptype = "bool"
            THEN (IF Lower(txt) \in TrueTokens THEN PyBool(TRUE)
                  ELSE IF Lower(txt) \in FalseTokens THEN PyBool(FALSE)
                  ELSE keep_token)
            ELSE IF ptype = "float"
            THEN (LET val_txt == Split(txt)[1]
                  IN IF PyFloat(val_txt).ok THEN PyNum(PyFloat(val_txt).num)
                     ELSE keep_token)
            ELSE PyStr(txt)

\* _parse_value without strip()
ParseValueNoStrip(ptype, unit, raw, keep_token) ==
    IF raw.t = "none" THEN keep_token
    ELSE LET txt == PyStrOf(raw)
         IN IF txt = <<>> THEN keep_token
            ELSE IF ptype = "bool"
            THEN (IF Lower(txt) \in TrueTokens THEN PyBool(TRUE)
                  ELSE IF Lower(txt) \in FalseTokens THEN PyBool(FALSE)
                  ELSE keep_token)
            ELSE IF ptype = "float"
            THEN (LET toks == Split(ReplaceCommaDot(txt))
                  IN IF toks # <<>> /\ PyFloat(toks[1]).ok
                     THEN PyNum(PyFloat(toks[1]).num)
                     ELSE keep_token)
            ELSE PyStr(txt)

\* ada_brand_bulk_editor_shim._parse_value
ParseValue(ptype, unit, raw, keep_token) ==
    IF raw.t = "none" THEN keep_token
    ELSE LET txt == Strip(PyStrOf(raw))
         IN IF txt = <<>> THEN keep_token
            ELSE IF ptype = "bool"
            THEN (IF Lower(txt) \in TrueTokens THEN PyBool(TRUE)
                  ELSE IF Lower(txt) \in FalseTokens THEN PyBool(FALSE)
                  ELSE keep_token)
            ELSE IF ptype = "float"
            THEN (LET val_txt == Split(ReplaceCommaDot(txt))[1]
                  IN IF PyFloat(val_txt).ok THEN PyNum(PyFloat(val_txt).num)
                     ELSE keep_token)
            ELSE PyStr(txt)

\* ada_brand_bulk_editor_ui.bulk_edit._safe_text
UiSafeText(val) ==
    IF val.t = "none" THEN <<>>
    ELSE IF val.t = "float" THEN FmtNumber(val.n)
    ELSE PyStrOf(val)

\* ada_brand_bulk_editor_ui.bulk_edit._fmt_current
UiFmtCurrent(v, ptype, unit) ==
    IF v.t = "none" THEN <<>>
    ELSE IF ptype = "bool"
    THEN (IF Truthy(v) THEN <<"Y","e","s">> ELSE <<"N","o">>)
    ELSE IF ptype = "float"
    THEN (IF ToFloat(v).ok THEN FmtNumber(ToFloat(v).num) ELSE PyStrOf(v))
         \o (IF unit # <<>> THEN <<" ">> \o unit ELSE <<>>)
    ELSE PyStrOf(v)

UiTrueTokens ==
    { <<"y","e","s">>, <<"t","r","u","e">>, <<"1">>, <<"y">>, <<"t">>,
      <<"U2713">>, <<"t","i","c","k">>, <<"c","h","e","c","k">> }

UiFalseTokens ==
    { <<"n","o">>, <<"f","a","l","s","e">>, <<"0">>, <<"n">>, <<"f">>,
      <<"U2717">>, <<"x">>, <<"c","r","o","s","s">> }

\* ada_brand_bulk_editor_ui.bulk_edit._parse_value (None is "keep")
UiParseValue(ptype, unit, raw) ==
    IF raw.t = "none" THEN PyNone
    ELSE LET txt == Strip(PyStrOf(raw))
             tl == Lower(txt)
         IN IF txt = <<>> THEN PyNone
            ELSE IF ptype = "bool"
            THEN (IF tl \in UiTrueTokens THEN PyBool(TRUE)
                  ELSE IF tl \in UiFalseTokens THEN PyBool(FALSE)
                  ELSE PyNone)
            ELSE IF ptype = "float"
            THEN (LET tok == Split(ReplaceCommaDot(txt))[1]
                  IN IF PyFloat(tok).ok THEN PyNum(PyFloat(tok).num)
                     ELSE PyNone)
            ELSE PyStr(txt)

----------------------------------------------------------------------------
(* Value functions: the calls the model makes.  A call either parses a     *)
(* text the user typed, or formats a current value with _fmt_current and   *)
(* parses that display unmodified.                                         *)

UpperChar(c) ==
    IF \E i \in 1..26 : LowerLetters[i] = c
    THEN UpperLetters[CHOOSE i \in 1..26 : LowerLetters[i] = c]
    ELSE c

\* every spelling of tok in upper and lower case letters
CaseVariants(tok) ==
    { [i \in 1..Len(tok) |-> IF f[i] THEN UpperChar(tok[i]) ELSE tok[i]] :
        f \in [1..Len(tok) -> BOOLEAN] }

Blanks(k) == [i \in 1..k |-> " "]

Pads == { Blanks(k) : k \in 0..MaxPad } \cup { <<"\t">> }

TextAlphabet == {"1", "5", ",", ".", "e", "-", " ", "x"}

FreeTexts == UNION { [1..n -> TextAlphabet] : n \in 0..MaxTextLen }

WordTexts ==
    { l \o w \o r :
        l \in Pads, r \in Pads,
        w \in UNION { CaseVariants(t) : t \in TrueTokens \cup FalseTokens } }

ScenarioTexts ==
    { <<"1","5",",","0"," ","f","t">>,
      <<"1",",","2","3","4",".","5">>,
      <<"1","2",".","5"," ","m","m">>,
      <<"+","1","e","5">>,
      <<"-","I","n","f">>,
      <<"n","a","n">>,
      <<"m","a","y","b","e">>,
      <<" ","W","a","l","l"," ","A"," ">> }

TypedTexts == FreeTexts \cup WordTexts \cup ScenarioTexts

Units == { <<>>, <<"f","t">>, <<"m","m">> }

PTypes == {"bool", "float", "string"}

Pow5(k) == IF k <= 0 THEN 1 ELSE 5 ^ k

\* n is a double exactly (its decimal digits are its binary value)
ExactDouble(n) == n.e >= 0 \/ (-n.e <= 12 /\ n.m % Pow5(-n.e) = 0)

\* the digits "{:g}" drops are exactly one half of the last digit kept
DecimalTie(n) ==
    LET a == Abs(n.m)
        drop == NDigits(a) - GPrecision
    IN drop > 0 /\ a % Pow10(drop) = 5 * Pow10(drop - 1)

Mantissas ==
    (0..MaxSmallMantissa)
    \cup { 125, 123456, 999999, 1234565, 1234567, 1234575, 9999995,
           12345675, 12345649, 99999951 }

\* Current values of float parameters.  A value whose decimal expansion is
\* a rounding tie without being a double exactly is left out: its double
\* lies on one side of the tie, which the decimal does not tell.
Values ==
    { n \in { NormDec(sg * m, e) :
                sg \in {1, -1}, m \in Mantissas, e \in (-MinValueExp)..MaxValueExp } :
        DecimalTie(n) => ExactDouble(n) }

CurrentValues(ptype) ==
    CASE ptype = "float" -> {PyNone} \cup { PyNum(n) : n \in Values }
      [] ptype = "bool" -> {PyNone, PyBool(TRUE), PyBool(FALSE)}
      [] OTHER -> {PyNone, PyStr(<<>>), PyStr(<<"A"," ","1">>)}

KeepTokens == {PyNone, PyStr(<<>>)}

TypedCalls ==
    { [impl |-> i, mode |-> "typed", ptype |-> p, unit |-> <<>>,
       value |-> PyNone, keep |-> k, raw |-> r] :
        i \in {"shim", "ui"}, p \in PTypes, k \in KeepTokens,
        r \in {PyNone} \cup { PyStr(t) : t \in TypedTexts } }

DisplayCalls ==
    UNION { { [impl |-> i, mode |-> "display", ptype |-> p, unit |-> u,
               value |-> v, keep |-> PyNone, raw |-> PyNone] :
                i \in {"shim", "ui"}, u \in Units, v \in CurrentValues(p) } :
            p \in PTypes }

ParseIdle ==
    /\ pvIn = [impl |-> "none", mode |-> "none", ptype |-> "string", unit |-> <<>>,
               value |-> PyNone, keep |-> PyNone, raw |-> PyNone]
    /\ pvText = PyNone
    /\ pvOut = PyNone
    /\ pvPc = "idle"

\* the "not called" value of bulk_edit's result
ResUnset == [t |-> "unset", m |-> <<>>]

\* no menu line selected yet
NoAsk == [k |-> 0, raw |-> PyNone, was |-> PyNone]

BulkIdle ==
    /\ beImpl = "none"
    /\ beParams = <<>>
    /\ beRows = <<>>
    /\ beItems = <<>>
    /\ beSel = "unset"
    /\ beResult = ResUnset
    /\ bePc = "idle"
    /\ beAsk = NoAsk

\* list select results: None, a list, one element
RNone == [t |-> "none", v |-> <<>>]
RList(xs) == [t |-> "list", v |-> xs]
ROne(x) == [t |-> "one", v |-> <<x>>]

SelectIdle ==
    /\ slCall = [impl |-> "none"]
    /\ slShown = <<>>
    /\ slSelected = <<>>
    /\ slFilter = <<>>
    /\ slHow = "unset"
    /\ slResult = [t |-> "unset", v |-> <<>>]
    /\ slPc = "idle"

NoCall ==
    [op |-> "none", opts |-> "none", tier |-> "none", probes |-> <<>>,
     alert |-> "none", raised |-> FALSE]

BackendIdle ==
    /\ env = [v6 |-> "missing"]
    /\ FORMS = "unset"
    /\ lastCall = NoCall

ThemeIdle ==
    /\ thIn = [xaml |-> "missing"]
    /\ thScope = <<>>
    /\ thPc = "idle"

DialogIdle ==
    /\ dgCall = [fn |-> "none"]
    /\ dgOut = [ui |-> "none"]
    /\ dgPc = "idle"

FindIdle ==
    /\ fdIn = [n |-> 0]
    /\ fdQueue = <<>>
    /\ fdResult = [found |-> FALSE, node |-> 0]
    /\ fdPc = "idle"

PatchIdle ==
    /\ pfForms = [kind |-> "none"]
    /\ pfCalls = 0
    /\ pfLast = [via |-> "none"]

InitParse ==
    /\ component = "parse"
    /\ BulkIdle
    /\ SelectIdle
    /\ BackendIdle
    /\ ThemeIdle
    /\ DialogIdle
    /\ FindIdle
    /\ PatchIdle
    /\ pvIn \in { c \in TypedCalls : c.impl = "shim" \/ c.keep = PyNone }
                \cup DisplayCalls
    /\ pvText = pvIn.raw
    /\ pvOut = PyNone
    /\ pvPc = IF pvIn.mode = "typed" THEN "text" ELSE "current"

\* shim: the display of the current value
ShimFmtCurrent ==
    /\ pvPc = "current" /\ pvIn.impl = "shim"
    /\ pvText' = PyStr(FmtCurrent(pvIn.value, pvIn.ptype, pvIn.unit))
    /\ pvPc' = "text"
    /\ UNCHANGED <<outsideParse, pvIn, pvOut>>

\* ui: the display of the current value
UiFmtCurrentCall ==
    /\ pvPc = "current" /\ pvIn.impl = "ui"
    /\ pvText' = PyStr(UiFmtCurrent(pvIn.value, pvIn.ptype, pvIn.unit))
    /\ pvPc' = "text"
    /\ UNCHANGED <<outsideParse, pvIn, pvOut>>

\* shim: _parse_value(ptype, unit, raw, keep_token)
ShimParseValue ==
    /\ pvPc = "text" /\ pvIn.impl = "shim"
    /\ pvOut' = ParseValue(pvIn.ptype, pvIn.unit, pvText, pvIn.keep)
    /\ pvPc' = "parsed"
    /\ UNCHANGED <<outsideParse, pvIn, pvText>>

\* ui: _parse_value(ptype, unit, raw)
UiParseValueCall ==
    /\ pvPc = "text" /\ pvIn.impl = "ui"
    /\ pvOut' = UiParseValue(pvIn.ptype, pvIn.unit, pvText)
    /\ pvPc' = "parsed"
    /\ UNCHANGED <<outsideParse, pvIn, pvText>>

NextParse ==
    \/ ShimFmtCurrent
    \/ UiFmtCurrentCall
    \/ ShimParseValue
    \/ UiParseValueCall

SpecParse == InitParse /\ [][NextParse]_vars

----------------------------------------------------------------------------
(* The bulk parameter editor: ada_brand_bulk_editor_ui.bulk_edit (a form    *)
(* with one editor control per parameter) and                               *)
(* ada_brand_bulk_editor_shim.bulk_edit (a menu loop over SelectFromList    *)
(* and ask_for_string).  "U2014" is the em dash of the separator line and   *)
(* "U2022" the bullet that starts a row's line.                             *)

MaxParams == 2         \* longest editable_params list

DispWidth == 30        \* "{disp:<30}"
CurWidth == 10         \* "{cur:<10}"

ResNone == [t |-> "none", m |-> <<>>]
ResDict(m) == [t |-> "dict", m |-> m]

Param(name, display, ptype, cur, unit) ==
    [name |-> name, display |-> display, ptype |-> ptype, cur |-> cur, unit |-> unit]

\* Width and Height share their display name and current value, so their
\* menu lines can coincide
ParamPool ==
    { Param("Width", <<"W","i","d","t","h">>, "float",
            PyNum(NormDec(125, -1)), <<"f","t">>),
      Param("Height", <<"W","i","d","t","h">>, "float",
            PyNum(NormDec(125, -1)), <<"f","t">>),
      Param("Flag", <<"F","l","a","g">>, "bool", PyBool(TRUE), <<>>),
      Param("Mark", <<"M","a","r","k">>, "string", PyStr(<<"A">>), <<>>) }

ParamLists ==
    { ps \in UNION { [1..n -> ParamPool] : n \in 0..MaxParams } :
        \A i, j \in 1..Len(ps) : ps[i].name = ps[j].name => i = j }

BulkTexts ==
    { <<>>, <<" ">>, <<"1","5",",","0"," ","f","t">>, <<"a","b","c">>,
      <<" ","W","a","l","l"," ">> }

CheckStates == {"Indeterminate", "Checked", "Unchecked"}

\* a row as first built: CheckBox Indeterminate, TextBox empty, "new": None
NewRow == [check |-> "Indeterminate", text |-> <<>>, new |-> PyNone]

InitBulk ==
    /\ component = "bulk"
    /\ ParseIdle
    /\ SelectIdle
    /\ BackendIdle
    /\ ThemeIdle
    /\ DialogIdle
    /\ FindIdle
    /\ PatchIdle
    /\ beImpl \in {"ui", "shim"}
    /\ beParams \in ParamLists
    /\ beRows = <<>>
    /\ beItems = <<>>
    /\ beSel = "unset"
    /\ beResult = ResUnset
    /\ bePc = "called"
    /\ beAsk = NoAsk

\* if not editable_params: return None
BulkEditNoParams ==
    /\ bePc = "called" /\ beParams = <<>>
    /\ beResult' = ResNone
    /\ beSel' = "unset"
    /\ bePc' = "returned"
    /\ UNCHANGED <<outsideBulk, beImpl, beParams, beRows, beItems, beAsk>>

\* ui: the form is built, one control per parameter
UiBuildForm ==
    /\ bePc = "called" /\ beParams # <<>> /\ beImpl = "ui"
    /\ beRows' = [i \in 1..Len(beParams) |-> NewRow]
    /\ bePc' = "open"
    /\ UNCHANGED <<outsideBulk, beImpl, beParams, beItems, beSel, beResult, beAsk>>

\* ui: the user sets a bool row's tri-state CheckBox
UiSetCheck ==
    /\ bePc = "open" /\ beImpl = "ui"
    /\ \E i \in 1..Len(beParams), st \in CheckStates :
          /\ beParams[i].ptype = "bool"
          /\ st # beRows[i].check
          /\ beRows' = [beRows EXCEPT ![i].check = st]
    /\ UNCHANGED <<outsideBulk, beImpl, beParams, beItems, beSel, beResult, bePc, beAsk>>

\* ui: the user types into a row's TextBox
UiTypeText ==
    /\ bePc = "open" /\ beImpl = "ui"
    /\ \E i \in 1..Len(beParams), txt \in BulkTexts :
          /\ beParams[i].ptype # "bool"
          /\ txt # beRows[i].text
          /\ beRows' = [beRows EXCEPT ![i].text = txt]
    /\ UNCHANGED <<outsideBulk, beImpl, beParams, beItems, beSel, beResult, bePc, beAsk>>

\* ui: what the collect loop stores for one editor (PyNone: continue)
UiEdit(p, row) ==
    IF p.ptype = "bool"
    THEN (IF row.check = "Indeterminate" THEN PyNone
          ELSE PyBool(row.check = "Checked"))
    ELSE LET raw == Strip(UiSafeText(PyStr(row.text)))
         IN IF raw = <<>> THEN PyNone
            ELSE UiParseValue(p.ptype, <<>>, PyStr(raw))

\* a dict that also holds, for a row with nothing stored, its current value
DictOfWithOriginals(params, vals) ==
    [ n \in { params[i].name : i \in 1..Len(params) } |->
        LET last == CHOOSE i \in 1..Len(params) :
                       /\ params[i].name = n
                       /\ \A j \in 1..Len(params) : params[j].name = n => j <= i
        IN IF vals[last] = PyNone THEN params[last].cur ELSE vals[last] ]

\* a dict filled in list order: for each key the last value stored wins
DictOf(params, vals) ==
    LET stored == { i \in 1..Len(params) : vals[i] # PyNone }
    IN [ n \in { params[i].name : i \in stored } |->
           LET last == CHOOSE i \in stored :
                          /\ params[i].name = n
                          /\ \A j \in stored : params[j].name = n => j <= i
           IN vals[last] ]

\* ui: changes as collected after ShowDialog() returned OK
UiChanges(params, rows) ==
    DictOf(params, [i \in 1..Len(params) |-> UiEdit(params[i], rows[i])])

\* ui: OK button (or Enter)
UiOK ==
    /\ bePc = "open" /\ beImpl = "ui"
    /\ beResult' = ResDict(UiChanges(beParams, beRows))
    /\ beSel' = "OK"
    /\ bePc' = "returned"
    /\ UNCHANGED <<outsideBulk, beImpl, beParams, beRows, beItems, beAsk>>

\* ui: Cancel button, Escape, the close label, or the window closed
UiCancel ==
    /\ bePc = "open" /\ beImpl = "ui"
    /\ beResult' = ResNone
    /\ beSel' = "Cancel"
    /\ bePc' = "returned"
    /\ UNCHANGED <<outsideBulk, beImpl, beParams, beRows, beItems, beAsk>>

PadRight(s, n) == s \o Blanks(n - Len(s))

StartsWith(s, prefix) ==
    Len(s) >= Len(prefix) /\ SubSeq(s, 1, Len(prefix)) = prefix

ApplyLine == <<"A","p","p","l","y"," ","/"," ","D","o","n","e">>
CancelLine == <<"C","a","n","c","e","l">>
SeparatorLine == <<"U2014">>

\* shim: one row's menu line
RowLine(p, row) ==
    LET cur == FmtCurrent(p.cur, p.ptype, p.unit)
        ndisp == IF row.new = PyNone THEN <<"(","k","e","e","p",")">>
                 ELSE FmtCurrent(row.new, p.ptype, p.unit)
    IN <<"U2022", " ">> \o PadRight(p.display, DispWidth)
       \o <<" "," ","c","u","r","r","e","n","t",":"," ">> \o PadRight(cur, CurWidth)
       \o <<" "," ","n","e","w",":"," ">> \o ndisp

\* shim: make_menu()
MakeMenu(params, rows) ==
    <<ApplyLine, CancelLine, SeparatorLine>>
    \o [i \in 1..Len(params) |-> RowLine(params[i], rows[i])]

\* items.index(sel): the first position holding sel
ListIndex(items, sel) ==
    CHOOSE k \in 1..Len(items) :
        items[k] = sel /\ \A j \in 1..(k - 1) : items[j] # sel

\* shim: what _sfl can hand back for the menu: one of its lines, or None
MenuChoices(items) == { PyStr(items[k]) : k \in 1..Len(items) } \cup { PyNone }

\* shim: the row the loop edits for a selected line (0: none, "continue")
RowOf(items, sel, nrows) ==
    LET idx == ListIndex(items, sel) - 3
    IN IF idx < 1 \/ idx > nrows THEN 0 ELSE idx

\* shim: out, built from the rows whose "new" is not None
ShimOut(params, rows) ==
    DictOf(params, [i \in 1..Len(params) |-> rows[i].new])

\* shim: rows are built and the first menu is made
ShimBuildRows ==
    /\ bePc = "called" /\ beParams # <<>> /\ beImpl = "shim"
    /\ beRows' = [i \in 1..Len(beParams) |-> NewRow]
    /\ beItems' = MakeMenu(beParams, beRows')
    /\ bePc' = "open"
    /\ UNCHANGED <<outsideBulk, beImpl, beParams, beSel, beResult, beAsk>>

\* a Cancel that hands back what was entered so far
ShimCancelWithEdits ==
    /\ bePc = "open" /\ beImpl = "shim"
    /\ \E sel \in MenuChoices(beItems) :
          /\ \/ ~Truthy(sel)
             \/ /\ Truthy(sel)
                /\ ~StartsWith(sel.s, <<"A","p","p","l","y">>)
                /\ StartsWith(sel.s, CancelLine)
          /\ beSel' = IF Truthy(sel) THEN "Cancel" ELSE "None"
    /\ beResult' = ResDict(ShimOut(beParams, beRows))
    /\ bePc' = "returned"
    /\ UNCHANGED <<outsideBulk, beImpl, beParams, beRows, beItems, beAsk>>

\* shim: the menu is dismissed (sel is None or empty), or "Cancel" is selected
ShimCancel ==
    /\ bePc = "open" /\ beImpl = "shim"
    /\ \E sel \in MenuChoices(beItems) :
          /\ \/ ~Truthy(sel)
             \/ /\ Truthy(sel)
                /\ ~StartsWith(sel.s, <<"A","p","p","l","y">>)
                /\ StartsWith(sel.s, CancelLine)
          /\ beSel' = IF Truthy(sel) THEN "Cancel" ELSE "None"
    /\ beResult' = ResNone
    /\ bePc' = "returned"
    /\ UNCHANGED <<outsideBulk, beImpl, beParams, beRows, beItems, beAsk>>

\* shim: "Apply / Done" is selected
ShimApply ==
    /\ bePc = "open" /\ beImpl = "shim"
    /\ \E sel \in MenuChoices(beItems) :
          Truthy(sel) /\ StartsWith(sel.s, <<"A","p","p","l","y">>)
    /\ beResult' = ResDict(ShimOut(beParams, beRows))
    /\ beSel' = "Apply"
    /\ bePc' = "returned"
    /\ UNCHANGED <<outsideBulk, beImpl, beParams, beRows, beItems, beAsk>>

\* a menu selection that is none of Apply, Cancel, dismissed
IsRowChoice(sel) ==
    /\ Truthy(sel)
    /\ ~StartsWith(sel.s, <<"A","p","p","l","y">>)
    /\ ~StartsWith(sel.s, CancelLine)

\* shim: the separator is selected; the loop continues with the same menu
ShimSeparator ==
    /\ bePc = "open" /\ beImpl = "shim"
    /\ \E sel \in MenuChoices(beItems) :
          IsRowChoice(sel) /\ sel.s = SeparatorLine
    /\ UNCHANGED vars

KeepChoice ==
    <<"K","e","e","p"," ","(","n","o"," ","c","h","a","n","g","e",")">>

\* shim: a bool row's line is selected, then Keep / Yes / No (or nothing);
\* the menu is made again
ShimEditBool ==
    /\ bePc = "open" /\ beImpl = "shim"
    /\ \E k \in 1..Len(beItems),
          choice \in { PyNone, PyStr(KeepChoice),
                       PyStr(<<"Y","e","s">>), PyStr(<<"N","o">>) } :
          LET sel == PyStr(beItems[k])
              idx == RowOf(beItems, sel.s, Len(beRows))
          IN /\ IsRowChoice(sel) /\ sel.s # SeparatorLine
             /\ idx # 0
             /\ beParams[idx].ptype = "bool"
             /\ beRows' = [beRows EXCEPT ![idx].new =
                    IF ~Truthy(choice) \/ StartsWith(choice.s, <<"K","e","e","p">>)
                    THEN PyNone
                    ELSE IF choice.s = <<"Y","e","s">> THEN PyBool(TRUE)
                    ELSE IF choice.s = <<"N","o">> THEN PyBool(FALSE)
                    ELSE @]
             /\ beAsk' = [k |-> k, raw |-> choice, was |-> beRows[idx].new]
    /\ beItems' = MakeMenu(beParams, beRows')
    /\ UNCHANGED <<outsideBulk, beImpl, beParams, beSel, beResult, bePc>>

\* shim: default = "" if r["new"] is None else str(r["new"])
AskDefault(r) == IF r.new = PyNone THEN <<>> ELSE PyStrOf(r.new)

\* the same call with _parse_value's own default keep_token, ""
EditedTextDefaultToken(p, raw) == ParseValue(p.ptype, p.unit, raw, PyStr(<<>>))

\* r["new"] = _parse_value(ptype, unit, raw, keep_token=None)
EditedText(p, raw) == ParseValue(p.ptype, p.unit, raw, PyNone)

\* shim: another row's line is selected, then _ask hands back the entered
\* text, None, or the default it was given; the menu is made again
ShimEditText ==
    /\ bePc = "open" /\ beImpl = "shim"
    /\ \E k \in 1..Len(beItems) :
          LET sel == PyStr(beItems[k])
              idx == RowOf(beItems, sel.s, Len(beRows))
          IN /\ IsRowChoice(sel) /\ sel.s # SeparatorLine
             /\ idx # 0
             /\ beParams[idx].ptype # "bool"
             /\ \E raw \in { PyStr(t) : t \in BulkTexts }
                   \cup { PyNone, PyStr(AskDefault(beRows[idx])) } :
                   /\ beRows' = [beRows EXCEPT ![idx].new =
                                    EditedText(beParams[idx], raw)]
                   /\ beAsk' = [k |-> k, raw |-> raw, was |-> beRows[idx].new]
    /\ beItems' = MakeMenu(beParams, beRows')
    /\ UNCHANGED <<outsideBulk, beImpl, beParams, beSel, beResult, bePc>>

NextBulk ==
    \/ BulkEditNoParams
    \/ UiBuildForm
    \/ UiSetCheck
    \/ UiTypeText
    \/ UiOK
    \/ UiCancel
    \/ ShimBuildRows
    \/ ShimCancel
    \/ ShimApply
    \/ ShimSeparator
    \/ ShimEditBool
    \/ ShimEditText

SpecBulk == InitBulk /\ [][NextBulk]_vars

----------------------------------------------------------------------------
(* List selection: ada_brandforms_v6.select_from_list (WPF, with a filter  *)
(* box), forms.SelectFromList.show (XAML template) and the WinForms        *)
(* fallback ada_bootstrap._WFSelect.show.                                   *)

MaxItems == 2          \* longest items list

\* an item: an object with an identity, its str() and a name attribute
Item(id, str, name) == [id |-> id, str |-> str, name |-> name]

\* two distinct objects with the same str(), and names that differ from str()
ItemPool ==
    { Item(1, <<"a","b">>, <<"A","b">>),
      Item(2, <<"a","b">>, <<"b">>),
      Item(3, <<"b">>, <<"b">>) }

ItemLists == UNION { [1..n -> ItemPool] : n \in 0..MaxItems }

FilterTexts == { <<>>, <<"a">>, <<"B">>, <<"x">>, <<"A", "B">> }

\* elements of a result: an original item, or a label string
Obj(it) == [k |-> "obj", id |-> it.id, s |-> it.str]
Str(label) == [k |-> "str", id |-> 0, s |-> label]

SelectCall(impl, items, multiselect, name_attr, template, list_items, button_ok, button_cancel, winforms) ==
    [impl |-> impl, items |-> items, multiselect |-> multiselect,
     name_attr |-> name_attr, template |-> template, list_items |-> list_items,
     button_ok |-> button_ok, button_cancel |-> button_cancel,
     winforms |-> winforms]

SelectCalls ==
    { SelectCall("v6", items, m, na, TRUE, TRUE, TRUE, TRUE, TRUE) :
        items \in ItemLists, m \in BOOLEAN, na \in BOOLEAN }
    \cup
    { SelectCall("forms", items, m, na, c[1], c[2], c[3], c[4], TRUE) :
        items \in ItemLists, m \in BOOLEAN, na \in BOOLEAN,
        c \in { <<FALSE, TRUE, TRUE, TRUE>>, <<TRUE, FALSE, TRUE, TRUE>> }
              \cup { <<TRUE, TRUE, ok, ca>> : ok \in BOOLEAN, ca \in BOOLEAN } }
    \cup
    { SelectCall("wf", items, m, FALSE, TRUE, TRUE, TRUE, TRUE, wf) :
        items \in ItemLists, m \in BOOLEAN, wf \in BOOLEAN }

InitSelect ==
    /\ component = "select"
    /\ ParseIdle
    /\ BulkIdle
    /\ BackendIdle
    /\ ThemeIdle
    /\ DialogIdle
    /\ FindIdle
    /\ PatchIdle
    /\ slCall \in SelectCalls
    /\ slShown = <<>>
    /\ slSelected = <<>>
    /\ slFilter = <<>>
    /\ slHow = "unset"
    /\ slResult = [t |-> "unset", v |-> <<>>]
    /\ slPc = "called"

\* v6 _display / forms _label: the name attribute if name_attr is given
Display(call, it) == IF call.name_attr THEN it.name ELSE it.str

\* ft in text
Contains(text, ft) ==
    \E i \in 0..(Len(text) - Len(ft)) : SubSeq(text, i + 1, i + Len(ft)) = ft

\* v6: full, the backing store of (text, obj)
Full(call) ==
    [i \in 1..Len(call.items) |->
        [text |-> Display(call, call.items[i]), tag |-> call.items[i]]]

\* a reload that compares without lower()
ReloadCaseSensitive(call, filter_text) ==
    LET Keep(e) == filter_text = <<>> \/ Contains(e.text, filter_text)
    IN SelectSeq(Full(call), Keep)

\* v6: _reload(filter_text)
Reload(call, filter_text) ==
    LET ft == Lower(filter_text)
        Keep(e) == ft = <<>> \/ Contains(Lower(e.text), ft)
    IN SelectSeq(Full(call), Keep)

\* the dialog returns: nothing else changes
Return(how, result) ==
    /\ slHow' = how
    /\ slResult' = result
    /\ slPc' = "returned"
    /\ UNCHANGED <<outsideSelect, slCall, slShown, slSelected, slFilter>>

\* [] if multiselect else None
CancelValue(call) == IF call.multiselect THEN RList(<<>>) ELSE RNone

\* v6: the dialog is built and the list loaded
V6Open ==
    /\ slPc = "called" /\ slCall.impl = "v6"
    /\ slShown' = Reload(slCall, <<>>)
    /\ slPc' = "open"
    /\ UNCHANGED <<outsideSelect, slCall, slSelected, slFilter, slHow, slResult>>

\* a filter change that reloads the list and keeps the selection
V6TypeFilterKeepsSelection ==
    /\ slPc = "open" /\ slCall.impl = "v6"
    /\ \E ft \in FilterTexts :
          /\ ft # slFilter
          /\ slFilter' = ft
          /\ slShown' = Reload(slCall, ft)
    /\ UNCHANGED <<outsideSelect, slCall, slSelected, slHow, slResult, slPc>>

\* v6: the user changes the filter text; the list is cleared and reloaded
V6TypeFilter ==
    /\ slPc = "open" /\ slCall.impl = "v6"
    /\ \E ft \in FilterTexts :
          /\ ft # slFilter
          /\ slFilter' = ft
          /\ slShown' = Reload(slCall, ft)
    /\ slSelected' = <<>>
    /\ UNCHANGED <<outsideSelect, slCall, slHow, slResult, slPc>>

\* the user clicks an entry: it becomes the selection (single), or is added
\* to or taken from the selection (multi)
ListClick ==
    /\ slPc = "open"
    /\ \E i \in 1..Len(slShown) :
          slSelected' =
              IF \E k \in 1..Len(slSelected) : slSelected[k] = i
              THEN SelectSeq(slSelected, LAMBDA x : x # i)
              ELSE IF slCall.multiselect THEN Append(slSelected, i)
              ELSE <<i>>
    /\ UNCHANGED <<outsideSelect, slCall, slShown, slFilter, slHow, slResult, slPc>>

\* v6: the result when dlg._result == ok_label
V6Selected(call, shown, selected) ==
    IF call.multiselect
    THEN RList([k \in 1..Len(selected) |-> Obj(shown[selected[k]].tag)])
    ELSE IF selected = <<>> THEN RNone
    ELSE ROne(Obj(shown[selected[1]].tag))

\* v6: the OK button, or Enter
V6Accept ==
    /\ slPc = "open" /\ slCall.impl = "v6"
    /\ \E how \in {"ok", "enter"} :
          Return(how, V6Selected(slCall, slShown, slSelected))

\* v6: Cancel button, Escape, or the close glyph
V6Cancel ==
    /\ slPc = "open" /\ slCall.impl = "v6"
    /\ \E how \in {"cancel", "escape", "close"} :
          Return(how, CancelValue(slCall))

\* v6: a double click on an entry in single-select mode selects and accepts
V6DoubleClick ==
    /\ slPc = "open" /\ slCall.impl = "v6" /\ ~slCall.multiselect
    /\ \E i \in 1..Len(slShown) :
          /\ slSelected' = <<i>>
          /\ slResult' = V6Selected(slCall, slShown, <<i>>)
    /\ slHow' = "ok"
    /\ slPc' = "returned"
    /\ UNCHANGED <<outsideSelect, slCall, slShown, slFilter>>

\* forms: SelectFromList.xaml cannot be loaded; _load_win raises, show
\* returns None
FormsLoadFails ==
    /\ slPc = "called" /\ slCall.impl = "forms" /\ ~slCall.template
    /\ Return("template_missing", RNone)

\* forms: the template has no list_items part
FormsNoList ==
    /\ slPc = "called" /\ slCall.impl = "forms"
    /\ slCall.template /\ ~slCall.list_items
    /\ Return("part_missing", RNone)

\* forms: the window is loaded and the labels are added to the list
FormsOpen ==
    /\ slPc = "called" /\ slCall.impl = "forms"
    /\ slCall.template /\ slCall.list_items
    /\ slShown' = Full(slCall)
    /\ slPc' = "open"
    /\ UNCHANGED <<outsideSelect, slCall, slSelected, slFilter, slHow, slResult>>

\* labels.index(s): the first position holding s (0: s is not in labels)
LabelIndex(items, label) ==
    IF \E i \in 1..Len(items) : items[i].str = label
    THEN CHOOSE i \in 1..Len(items) :
            items[i].str = label /\ \A j \in 1..(i - 1) : items[j].str # label
    ELSE 0

\* forms: result["selm"], the list entries equal to a selected entry, in
\* list order
FormsSelm(shown, selected) ==
    LET IsSel(i) == \E k \in 1..Len(selected) : shown[selected[k]].text = shown[i].text
        hit == SelectSeq([i \in 1..Len(shown) |-> i], IsSel)
    IN [k \in 1..Len(hit) |-> shown[hit[k]].text]

\* forms: the value returned after ShowDialog() answered true
FormsSelected(call, shown, selected) ==
    IF call.multiselect
    THEN LET selm == FormsSelm(shown, selected)
             known == SelectSeq(selm, LAMBDA l : LabelIndex(call.items, l) # 0)
         IN RList([k \in 1..Len(known) |->
                      Obj(call.items[LabelIndex(call.items, known[k])])])
    ELSE IF selected = <<>> THEN RNone
    ELSE LET lbl == shown[selected[1]].text
         IN IF LabelIndex(call.items, lbl) # 0
            THEN ROne(Obj(call.items[LabelIndex(call.items, lbl)]))
            ELSE RNone

\* forms: the OK button, if the template has one
FormsOK ==
    /\ slPc = "open" /\ slCall.impl = "forms" /\ slCall.button_ok
    /\ Return("ok", FormsSelected(slCall, slShown, slSelected))

\* forms: the Cancel button, if the template has one, or the window closed;
\* ShowDialog() is not true and show returns None
FormsCancel ==
    /\ slPc = "open" /\ slCall.impl = "forms"
    /\ \E how \in {"cancel", "close"} :
          /\ how = "cancel" => slCall.button_cancel
          /\ Return(how, RNone)

\* wf: _WINFORMS_OK is false
WfUnavailable ==
    /\ slPc = "called" /\ slCall.impl = "wf" /\ ~slCall.winforms
    /\ Return("no_winforms", CancelValue(slCall))

\* wf: the form is built, str(opt) added per option
WfOpen ==
    /\ slPc = "called" /\ slCall.impl = "wf" /\ slCall.winforms
    /\ slShown' = Full(slCall)
    /\ slPc' = "open"
    /\ UNCHANGED <<outsideSelect, slCall, slSelected, slFilter, slHow, slResult>>

\* SelectedIndices: the selected positions in ascending order
SelectedIndices(shown, selected) ==
    SelectSeq([i \in 1..Len(shown) |-> i],
              LAMBDA i : \E k \in 1..Len(selected) : selected[k] = i)

\* wf: the OK button or Enter; the list's strings are returned
WfOK ==
    /\ slPc = "open" /\ slCall.impl = "wf"
    /\ \E how \in {"ok", "enter"} :
          Return(how,
                 IF slCall.multiselect
                 THEN RList([k \in 1..Len(slSelected) |->
                        Str(slShown[SelectedIndices(slShown, slSelected)[k]].text)])
                 ELSE IF slSelected = <<>> THEN RNone
                 ELSE ROne(Str(slShown[slSelected[1]].text)))

\* wf: the Cancel button, Escape, or the form closed
WfCancel ==
    /\ slPc = "open" /\ slCall.impl = "wf"
    /\ \E how \in {"cancel", "escape", "close"} :
          Return(how, CancelValue(slCall))

NextSelect ==
    \/ V6Open
    \/ V6TypeFilter
    \/ ListClick
    \/ V6Accept
    \/ V6Cancel
    \/ V6DoubleClick
    \/ FormsLoadFails
    \/ FormsNoList
    \/ FormsOpen
    \/ FormsOK
    \/ FormsCancel
    \/ WfUnavailable
    \/ WfOpen
    \/ WfOK
    \/ WfCancel

SpecSelect == InitSelect /\ [][NextSelect]_vars

----------------------------------------------------------------------------
(* Backend fallback chains: ada_brand_bulk_editor_shim._load_forms (run     *)
(* once, at import, into FORMS), ada_core_bigbuttons.alert / choose /      *)
(* choose_multi and ada_bootstrap._big_button_box.  A tier is tried inside  *)
(* try/except; an import that fails or a call that raises hands over to    *)
(* the next tier.                                                           *)

ImportStates == {"missing", "ready", "loaded"}

\* tiers whose dialog call can work or raise at the moment
WorkTiers == {"v6", "wpf", "pyrevit", "taskdialog"}

\* v6, pyrevit: python modules ("loaded": in sys.modules, imports keep
\* succeeding); bootstrap: ada_bootstrap can be imported; winforms:
\* ada_bootstrap._WINFORMS_OK; v6bb: ada_brandforms_v6 has big_buttons and
\* big_buttons_multi; works[t]: a dialog call on tier t succeeds now (for
\* wpf and taskdialog this covers the import of the host assemblies)
Envs ==
    [v6 : ImportStates, pyrevit : ImportStates, bootstrap : BOOLEAN,
     winforms : BOOLEAN, v6bb : BOOLEAN, works : [WorkTiers -> BOOLEAN]]

\* the tiers with pyrevit tried first
ChainPyrevitFirst(op) ==
    CASE op = "load_forms" -> <<"pyrevit", "v6", "bootstrap">>
      [] op = "alert" -> <<"pyrevit", "v6", "taskdialog">>
      [] op = "choose" -> <<"v6", "wpf", "pyrevit", "taskdialog">>
      [] op = "choose_multi" -> <<"v6", "wpf", "pyrevit">>
      [] op = "big_button_box" -> <<"v6", "winforms">>

\* the tiers of each operation, in the order the code tries them
Chain(op) ==
    CASE op = "load_forms" -> <<"v6", "bootstrap", "pyrevit">>
      [] op = "alert" -> <<"v6", "pyrevit", "taskdialog">>
      [] op = "choose" -> <<"v6", "wpf", "pyrevit", "taskdialog">>
      [] op = "choose_multi" -> <<"v6", "wpf", "pyrevit">>
      [] op = "big_button_box" -> <<"v6", "winforms">>

\* what is left when every tier has handed over
LastResort(op) ==
    CASE op = "load_forms" -> "fallback"
      [] op = "alert" -> "console"
      [] op = "choose" -> "default"
      [] op = "choose_multi" -> "alert"
      [] op = "big_button_box" -> "none"

\* the import a tier starts with succeeds
Importable(e, tier) ==
    CASE tier = "v6" -> e.v6 # "missing"
      [] tier = "pyrevit" -> e.pyrevit # "missing"
      [] tier = "bootstrap" -> e.bootstrap
      [] tier = "winforms" -> e.winforms
      [] OTHER -> TRUE

\* one tier tried: "done" (it handled the call and the operation returns),
\* "skip" (left without an exception), "raise"
Attempt(op, tier, e, wf) ==
    IF ~Importable(e, tier) THEN (IF tier = "winforms" THEN "skip" ELSE "raise")
    ELSE IF op = "load_forms" THEN "done"
    ELSE IF tier = "v6" /\ op \in {"choose", "choose_multi"} /\ ~e.v6bb THEN "skip"
    ELSE IF tier = "winforms" THEN (IF wf THEN "done" ELSE "raise")
    ELSE IF e.works[tier] THEN "done" ELSE "raise"

\* a tier whose exception would reach the caller
GuardedButPyrevit(op, tier) == tier # "pyrevit"

\* the tier's attempt sits inside try / except Exception
Guarded(op, tier) == TRUE

\* the chain from tier i on: the tier used, the tiers tried, and whether an
\* exception left the operation
RECURSIVE RunFrom(_, _, _, _, _)
RunFrom(op, e, wf, i, probes) ==
    IF i > Len(Chain(op))
    THEN [tier |-> LastResort(op), probes |-> probes, raised |-> FALSE]
    ELSE IF Attempt(op, Chain(op)[i], e, wf) = "done"
    THEN [tier |-> Chain(op)[i], probes |-> Append(probes, Chain(op)[i]),
          raised |-> FALSE]
    ELSE IF Attempt(op, Chain(op)[i], e, wf) = "raise" /\ ~Guarded(op, Chain(op)[i])
    THEN [tier |-> "none", probes |-> Append(probes, Chain(op)[i]), raised |-> TRUE]
    ELSE RunFrom(op, e, wf, i + 1, Append(probes, Chain(op)[i]))

Run(op, e, wf) == RunFrom(op, e, wf, 1, <<>>)

InSeq(x, xs) == \E k \in 1..Len(xs) : xs[k] = x

\* sys.modules after the tiers in probes were tried: a module whose import
\* succeeded stays loaded
AfterImports(e, probes) ==
    [e EXCEPT !.v6 = IF @ = "ready" /\ InSeq("v6", probes) THEN "loaded" ELSE @,
              !.pyrevit = IF @ = "ready" /\ InSeq("pyrevit", probes)
                          THEN "loaded" ELSE @]

Call(op, opts, r, alertTier) ==
    [op |-> op, opts |-> opts, tier |-> r.tier, probes |-> r.probes,
     alert |-> alertTier, raised |-> r.raised]

InitBackend ==
    /\ component = "backend"
    /\ ParseIdle
    /\ BulkIdle
    /\ SelectIdle
    /\ ThemeIdle
    /\ DialogIdle
    /\ FindIdle
    /\ PatchIdle
    /\ env \in { e \in Envs : e.v6 # "loaded" /\ e.pyrevit # "loaded" }
    /\ FORMS = "unset"
    /\ lastCall = NoCall

\* a module appears on or disappears from sys.path before it was imported,
\* or a tier's dialog call starts or stops working
EnvChange ==
    /\ \/ \E m \in {"v6", "pyrevit"} :
             /\ env[m] # "loaded"
             /\ env' = [env EXCEPT ![m] = IF @ = "missing" THEN "ready" ELSE "missing"]
       \/ \E t \in WorkTiers : env' = [env EXCEPT !.works[t] = ~@]
    /\ UNCHANGED <<outsideBackend, FORMS, lastCall>>

\* the shim module is imported: FORMS = _load_forms()
ShimImport ==
    /\ FORMS = "unset"
    /\ FORMS' = Run("load_forms", env, FALSE).tier
    /\ lastCall' = Call("load_forms", "none", Run("load_forms", env, FALSE), "none")
    /\ env' = AfterImports(env, Run("load_forms", env, FALSE).probes)
    /\ UNCHANGED outsideBackend

\* a backend looked up again at the time of the call
ShimBackendReprobed(forms, e) == Run("load_forms", e, FALSE).tier

\* getattr(FORMS, ...): the backend a shim dialog goes to
ShimBackend(forms, e) == forms

\* the shim's _sfl / _ask: the dialog goes to FORMS, nothing is probed; an
\* exception of the backend other than TypeError leaves the call
ShimDialog ==
    /\ FORMS # "unset"
    /\ \E op \in {"shim_sfl", "shim_ask"}, raises \in BOOLEAN :
          /\ raises => ShimBackend(FORMS, env) # "fallback"
          /\ lastCall' = [op |-> op, opts |-> "none", tier |-> ShimBackend(FORMS, env),
                          probes |-> <<>>, alert |-> "none", raised |-> raises]
    /\ UNCHANGED <<outsideBackend, env, FORMS>>

\* bigbuttons.alert(message, title)
Alert ==
    /\ lastCall' = Call("alert", "none", Run("alert", env, FALSE), "none")
    /\ env' = AfterImports(env, Run("alert", env, FALSE).probes)
    /\ UNCHANGED <<outsideBackend, FORMS>>

\* a call that returns before any tier is tried
NoTier == [tier |-> "none", probes |-> <<>>, raised |-> FALSE]

\* bigbuttons.choose(options, ...): without options alert(...) and None
Choose ==
    /\ \E opts \in {"empty", "some"} :
          IF opts = "empty"
          THEN /\ lastCall' = [Call("choose", opts, NoTier, Run("alert", env, FALSE).tier)
                                 EXCEPT !.raised = Run("alert", env, FALSE).raised]
               /\ env' = AfterImports(env, Run("alert", env, FALSE).probes)
          ELSE /\ lastCall' = Call("choose", opts, Run("choose", env, FALSE), "none")
               /\ env' = AfterImports(env, Run("choose", env, FALSE).probes)
    /\ UNCHANGED <<outsideBackend, FORMS>>

\* bigbuttons.choose_multi(options, ...): without options alert(...) and [];
\* with every tier handed over, alert(...) and []
ChooseMulti ==
    /\ \E opts \in {"empty", "some"} :
          IF opts = "empty"
          THEN /\ lastCall' = [Call("choose_multi", opts, NoTier,
                                    Run("alert", env, FALSE).tier)
                                 EXCEPT !.raised = Run("alert", env, FALSE).raised]
               /\ env' = AfterImports(env, Run("alert", env, FALSE).probes)
          ELSE IF Run("choose_multi", env, FALSE).tier = LastResort("choose_multi")
          THEN /\ lastCall' =
                     [Call("choose_multi", opts, Run("choose_multi", env, FALSE),
                           Run("alert", env, FALSE).tier)
                        EXCEPT !.raised = Run("alert", env, FALSE).raised]
               /\ env' = AfterImports(env, Run("choose_multi", env, FALSE).probes
                                           \o Run("alert", env, FALSE).probes)
          ELSE /\ lastCall' = Call("choose_multi", opts,
                                   Run("choose_multi", env, FALSE), "none")
               /\ env' = AfterImports(env, Run("choose_multi", env, FALSE).probes)
    /\ UNCHANGED <<outsideBackend, FORMS>>

\* ada_bootstrap._big_button_box(title, buttons, cancel): without buttons
\* None; wf: the WinForms form can be built and shown
BigButtonBox ==
    /\ \E buttons \in {"empty", "some"}, wf \in BOOLEAN :
          IF buttons = "empty"
          THEN /\ lastCall' = Call("big_button_box", buttons, NoTier, "none")
               /\ env' = env
          ELSE /\ lastCall' = Call("big_button_box", buttons,
                                   Run("big_button_box", env, wf), "none")
               /\ env' = AfterImports(env, Run("big_button_box", env, wf).probes)
    /\ UNCHANGED <<outsideBackend, FORMS>>

NextBackend ==
    \/ EnvChange
    \/ ShimImport
    \/ ShimDialog
    \/ Alert
    \/ Choose
    \/ ChooseMulti
    \/ BigButtonBox

SpecBackend == InitBackend /\ [][NextBackend]_vars

----------------------------------------------------------------------------
(* Theme composition: forms._load_win, _merge_theme, _ensure_theme_tokens.  *)
(* win.Resources resolves a key from the window's own entries first, then   *)
(* from the merged Theme.xaml dictionary.                                    *)

\* the keys _ensure_theme_tokens puts
InjectedKeys ==
    {"Ada.Radius", "Ada.Padding", "Ada.Primary", "Ada.PrimaryBrush",
     "Ada.PrimaryBrush.Fg"}

\* keys a template or Theme.xaml can define and the code never names: one
\* for a background, one for a secondary accent
OtherKeys == {"Ada.Background", "Ada.Secondary"}

ThemeKeys == InjectedKeys \cup OtherKeys

\* Theme.xaml: absent, unreadable or malformed (XamlReader.Parse raises),
\* parsed to something that is not a ResourceDictionary, or a dictionary
ThemeFiles ==
    [status : {"absent", "malformed", "other"}, keys : {{}}]
        \cup [status : {"dict"}, keys : SUBSET ThemeKeys]

\* the window template: the file is missing, or its root is a Window or
\* other content, with the resources the template itself defines (none, or
\* a primary colour that a Theme.xaml can define too); raises:
\* rd[key] raises for a key that is not there (else it yields a null)
LoadInputs ==
    [xaml : {"missing", "window", "content"},
     own : {{}, {"Ada.Primary"}},
     theme : ThemeFiles,
     raises : BOOLEAN]

\* win.Resources after MergedDictionaries.Add(theme_dict)
Merged(own, theme) ==
    [k \in ThemeKeys |->
        IF k \in own THEN "window"
        ELSE IF theme.status = "dict" /\ k \in theme.keys THEN "theme"
        ELSE "none"]

\* _has(key): rd[key] did not raise
Has(scope, key, raises) == scope[key] # "none" \/ ~raises

\* _ensure_theme_tokens: each injected key that _has does not find is set
EnsureThemeTokens(scope, raises) ==
    [k \in ThemeKeys |->
        IF k \in InjectedKeys /\ ~Has(scope, k, raises) THEN "default"
        ELSE scope[k]]

\* _merge_theme(win): ENABLE_THEME is True
MergeTheme(own, theme, raises) ==
    EnsureThemeTokens(Merged(own, theme), raises)

InitTheme ==
    /\ component = "theme"
    /\ ParseIdle
    /\ BulkIdle
    /\ SelectIdle
    /\ BackendIdle
    /\ DialogIdle
    /\ FindIdle
    /\ PatchIdle
    /\ thIn \in LoadInputs
    /\ thScope = [k \in ThemeKeys |-> "none"]
    /\ thPc = "idle"

\* _load_win(xaml_name) when the template file is missing: IOError
LoadWinMissing ==
    /\ thPc = "idle"
    /\ thIn.xaml = "missing"
    /\ thPc' = "raised"
    /\ UNCHANGED <<outsideTheme, thIn, thScope>>

\* _load_win(xaml_name): the template is parsed, _merge_theme(win) composes
\* the resource scope, the window is returned
LoadWin ==
    /\ thPc = "idle"
    /\ thIn.xaml # "missing"
    /\ thScope' = MergeTheme(thIn.own, thIn.theme, thIn.raises)
    /\ thPc' = "done"
    /\ UNCHANGED <<outsideTheme, thIn>>

\* the next dialog: every show() loads its window anew
NextDialog ==
    /\ thPc \in {"done", "raised"}
    /\ thIn' \in LoadInputs
    /\ thScope' = [k \in ThemeKeys |-> "none"]
    /\ thPc' = "idle"
    /\ UNCHANGED outsideTheme

NextTheme ==
    \/ LoadWinMissing
    \/ LoadWin
    \/ NextDialog

SpecTheme == InitTheme /\ [][NextTheme]_vars

----------------------------------------------------------------------------
(* Modal dialogs.  Every handler of these dialogs closes the window, so a   *)
(* dialog session is one closing event of the user: a click on a label's    *)
(* button, on a footer or template button, on the header's close mark, a    *)
(* key, or the window being closed by the system.                            *)

\* what a dialog call returns
DNone == [t |-> "none", b |-> FALSE, s |-> ""]
DBool(b) == [t |-> "bool", b |-> b, s |-> ""]
DStr(s) == [t |-> "str", b |-> FALSE, s |-> s]
\* a System.Windows.Forms.DialogResult value
DEnum(s) == [t |-> "enum", b |-> FALSE, s |-> s]
\* the call raised
DRaised(s) == [t |-> "raised", b |-> FALSE, s |-> s]
\* a list of labels
DList(l) == [t |-> "list", b |-> FALSE, s |-> "", l |-> l]

\* a value as a condition: a DialogResult that MessageBox.Show returns is a
\* non-zero enum value
DTruthy(v) ==
    CASE v.t = "none" -> FALSE
      [] v.t = "bool" -> v.b
      [] v.t = "str" -> v.s # ""
      [] v.t = "enum" -> TRUE

Ev(e) == [e |-> e, i |-> 0]
LabelClicks(labels) == { [e |-> "label", i |-> i] : i \in 1..Len(labels) }

\* _AdaDialog.__init__: for i, lab in enumerate(buttons or ("OK",))
Footer(buttons) == IF buttons = <<>> THEN <<"OK">> ELSE buttons

\* the closing events of an _AdaDialog
AdaEvents(buttons) ==
    { [e |-> "footer", i |-> j] : j \in 1..Len(Footer(buttons)) }
        \cup { Ev("x"), Ev("escape"), Ev("enter"), Ev("close") }

\* _AdaDialog._result after the event
AdaResult(buttons, ev) ==
    CASE ev.e = "footer" -> DStr(Footer(buttons)[ev.i])
      [] ev.e \in {"x", "escape"} -> DBool(FALSE)
      [] ev.e = "enter" -> DStr(Footer(buttons)[1])
      [] OTHER -> DNone

\* v6/wpf_host.show_dialog: the dictionaries it merges, in its order
MergeOrderLocalFirst(root) ==
    <<"local/Theme.xaml", "local/Controls.xaml">>
        \o (IF root THEN <<"root/Theme.xaml", "root/Controls.xaml">> ELSE <<>>)

MergeOrder(root) ==
    (IF root THEN <<"root/Theme.xaml", "root/Controls.xaml">> ELSE <<>>)
        \o <<"local/Theme.xaml", "local/Controls.xaml">>

HostKeys == {"Ada.Primary"}

\* a dictionary file: absent, malformed (loading it raises), or a
\* dictionary that defines some keys
FileStates ==
    [status : {"absent", "malformed"}, keys : {{}}]
        \cup [status : {"dict"}, keys : SUBSET HostKeys]

\* show_dialog(dialog_xaml, theme_root, init, owner_handle): the dialog file
\* is there, theme_root and init are given, and the state of the four files
HostArgs ==
    [xaml : BOOLEAN, root : BOOLEAN, init : BOOLEAN,
     files : [{"root/Theme.xaml", "root/Controls.xaml", "local/Theme.xaml", "local/Controls.xaml"} -> FileStates]]

NoHostArgs ==
    [xaml |-> FALSE, root |-> FALSE, init |-> FALSE,
     files |-> [f \in {"root/Theme.xaml", "root/Controls.xaml", "local/Theme.xaml", "local/Controls.xaml"} |->
                  [status |-> "absent", keys |-> {}]]]

DialogFns ==
    {"host.show_dialog", "boot.big_button_box", "bb.choose", "v6.big_button_box", "forms.big_buttons",
     "v6.ask_yes_no", "forms.confirm", "boot.ask_yes_no",
     "v6.alert", "boot.alert", "shim.alert", "forms.alert",
     "forms.input_text", "forms.select",
     "bb.choose_multi", "boot.ask_for_string",
     "fallback.alert", "fallback.SelectFromList", "fallback.ask_for_string"}

\* the parts a forms.py dialog looks up in its template
PartsOf(fn) ==
    CASE fn = "forms.big_buttons" -> {"panel_buttons", "button_ok", "button_cancel"}
      [] fn = "forms.confirm" -> {"button_yes", "button_no", "button_ok", "button_cancel"}
      [] fn = "forms.alert" -> {"button_ok", "button_cancel"}
      [] fn = "forms.input_text" -> {"text_input", "button_ok", "button_cancel"}
      [] fn = "forms.select" -> {"list_items", "button_ok", "button_cancel"}
      [] OTHER -> {}

\* what of the host a dialog depends on: "v6" (ada_brandforms_v6 imports and
\* its window works), "winforms" (_WINFORMS_OK), "wpf", "pyrevit",
\* "template" (the dialog's XAML file is there and loads), "v6bb" (the
\* ada_brandforms_v6 on the path has big_buttons and big_buttons_multi)
HostOf(fn) ==
    CASE fn \in {"boot.big_button_box", "boot.ask_yes_no", "boot.alert", "boot.ask_for_string"} -> {"v6", "winforms"}
      [] fn \in {"bb.choose", "bb.choose_multi"} -> {"v6bb", "wpf", "pyrevit"}
      [] fn \in {"forms.big_buttons", "forms.confirm", "forms.alert", "forms.input_text", "forms.select"} -> {"template"}
      [] OTHER -> {}

LabelLists == { <<>>, <<"A">>, <<"A", "B">>, <<"B", "A">> }

\* the arguments each entry point takes; the others stay at their default
LabelsOf(fn) ==
    IF fn \in {"boot.big_button_box", "bb.choose", "v6.big_button_box", "forms.big_buttons", "forms.select"}
    THEN LabelLists
    ELSE IF fn = "bb.choose_multi" THEN LabelLists \cup { <<"All", "A">> }
    ELSE {<<>>}

\* choose_multi's include_all
AllOf(fn) == IF fn = "bb.choose_multi" THEN BOOLEAN ELSE {TRUE}

CancelOf(fn) ==
    IF fn \in {"boot.big_button_box", "v6.big_button_box", "forms.big_buttons"}
    THEN BOOLEAN ELSE {TRUE}

DefaultOf(fn) == IF fn = "bb.choose" THEN {DNone, DStr("B")} ELSE {DNone}

KwOf(fn) ==
    IF fn \in {"v6.alert", "boot.alert"} THEN {"none", "yesno", "okcancel"}
    ELSE IF fn = "shim.alert" THEN {"none", "yesno", "okcancel", "yesnocancel"}
    ELSE {"none"}

TextOf(fn) == IF fn \in {"forms.input_text", "boot.ask_for_string"} THEN {"", "hi"} ELSE {""}

HostArgsOf(fn) == IF fn = "host.show_dialog" THEN HostArgs ELSE {NoHostArgs}

DialogCalls ==
    UNION { { [fn |-> fn, labels |-> l, cancel |-> c, default |-> d, kw |-> k,
               text |-> t, has |-> h, parts |-> p, host |-> a, all |-> ia] :
                 l \in LabelsOf(fn), c \in CancelOf(fn), d \in DefaultOf(fn), ia \in AllOf(fn),
                 k \in KwOf(fn), t \in TextOf(fn), h \in SUBSET HostOf(fn),
                 p \in SUBSET PartsOf(fn), a \in HostArgsOf(fn) } : fn \in DialogFns }

\* nothing merged
NoEffect == [k \in HostKeys |-> "none"]

InitDialog ==
    /\ component = "dialog"
    /\ ParseIdle
    /\ BulkIdle
    /\ SelectIdle
    /\ BackendIdle
    /\ ThemeIdle
    /\ FindIdle
    /\ PatchIdle
    /\ dgCall \in DialogCalls
    /\ dgOut = [ui |-> "none", event |-> Ev("none"), result |-> DNone,
                log |-> <<>>, effective |-> NoEffect, shown |-> <<>>]
    /\ dgPc = "called"

\* the call returns after the windows in shown were presented to the user,
\* one after the other; ev is the event that closed the last one
ReturnedAfter(shown, ev, result) ==
    /\ dgOut' = [ui |-> IF shown = <<>> THEN "none" ELSE shown[Len(shown)],
                 event |-> ev, result |-> result,
                 log |-> <<>>, effective |-> NoEffect, shown |-> shown]
    /\ dgPc' = "returned"
    /\ UNCHANGED <<outsideDialog, dgCall>>

\* the call returns; ui is the one window it presented ("none": no window)
Returned(ui, ev, result) ==
    ReturnedAfter(IF ui = "none" THEN <<>> ELSE <<ui>>, ev, result)

Called(fn) == dgPc = "called" /\ dgCall.fn = fn

\* ada_bootstrap._big_button_box(title, buttons, cancel)
BootBigButtonBox ==
    /\ Called("boot.big_button_box")
    /\ IF dgCall.labels = <<>> THEN Returned("none", Ev("none"), DNone)
       ELSE IF "v6" \in dgCall.has
       THEN \E ev \in LabelClicks(dgCall.labels)
                        \cup AdaEvents(IF dgCall.cancel THEN <<"Cancel">> ELSE <<>>) :
               Returned("v6", ev, IF ev.e = "label" THEN DStr(dgCall.labels[ev.i])
                                  ELSE DNone)
       ELSE IF "winforms" \notin dgCall.has THEN Returned("none", Ev("none"), DNone)
       ELSE \E ev \in LabelClicks(dgCall.labels) \cup {Ev("close")} :
               Returned("winforms", ev, IF ev.e = "label" THEN DStr(dgCall.labels[ev.i])
                                        ELSE DNone)

\* ada_core_bigbuttons.choose(options, title, message, default); Path 1 is
\* taken when the ada_brandforms_v6 on the path has big_buttons, whose
\* return value is None, one of the options or something else
BBChoose ==
    /\ Called("bb.choose")
    /\ IF dgCall.labels = <<>> THEN Returned("alert", Ev("none"), DNone)
       ELSE IF "v6bb" \in dgCall.has
       THEN \E ev \in LabelClicks(dgCall.labels) \cup {Ev("x"), Ev("other")} :
               Returned("v6", ev, IF ev.e = "label" THEN DStr(dgCall.labels[ev.i])
                                  ELSE IF ev.e = "x" THEN DNone
                                  ELSE dgCall.default)
       ELSE IF "wpf" \in dgCall.has
       THEN \E ev \in LabelClicks(dgCall.labels) \cup {Ev("x"), Ev("close")} :
               Returned("wpf", ev, IF ev.e = "label" THEN DStr(dgCall.labels[ev.i])
                                   ELSE dgCall.default)
       ELSE IF "pyrevit" \in dgCall.has
       THEN \E ev \in LabelClicks(dgCall.labels) \cup {Ev("close")} :
               Returned("pyrevit", ev, IF ev.e = "label" THEN DStr(dgCall.labels[ev.i])
                                       ELSE dgCall.default)
       ELSE Returned("taskdialog", Ev("none"), dgCall.default)

\* the labels at the positions of mask (bit i - 1 set: labels[i] is in)
RECURSIVE PickFrom(_, _, _)
PickFrom(labels, mask, i) ==
    IF i > Len(labels) THEN <<>>
    ELSE (IF (mask \div (2 ^ (i - 1))) % 2 = 1 THEN <<labels[i]>> ELSE <<>>)
            \o PickFrom(labels, mask, i + 1)

Pick(labels, mask) == PickFrom(labels, mask, 1)

Masks(labels) == 0..(2 ^ Len(labels) - 1)

IsOption(x, opts) == \E i \in 1..Len(opts) : opts[i] = x

\* every element of the list the backend returned
KeepAll(rv, opts) == rv

\* [x for x in rv if x in opts]
KeepOptions(rv, opts) == LET In(x) == IsOption(x, opts) IN SelectSeq(rv, In)

\* what ui6.big_buttons_multi can return: None (closed), "__ALL__", a list
\* (of options, perhaps with a string that is no option), or a value of
\* another type (a single label, say)
V6MultiEvents(labels) ==
    { [e |-> k, i |-> m] : k \in {"list", "listz"}, m \in Masks(labels) }
        \cup {Ev("x"), Ev("all"), Ev("other")}

\* choose_multi, Path 1: what it returns for the value big_buttons_multi
\* returned
V6MultiResult(labels, ev) ==
    CASE ev.e = "x" -> <<>>
      [] ev.e = "all" -> labels
      [] ev.e = "list" -> KeepOptions(Pick(labels, ev.i), labels)
      [] ev.e = "listz" -> KeepOptions(Append(Pick(labels, ev.i), "Z"), labels)

\* choose_multi, pyrevit path: CommandSwitchWindow.show returned rv
PyrevitMultiResult(labels, include_all, ev) ==
    IF ev.e # "label" THEN <<>>
    ELSE IF labels[ev.i] = "All" /\ include_all THEN labels
    ELSE <<labels[ev.i]>>

\* choose_multi after Path 1: the WPF checkbox window (Go returns the checked
\* labels, closing it returns []), else CommandSwitchWindow, else alert(...)
\* and []; pre: the windows presented before
ChooseMultiRest(pre) ==
    IF "wpf" \in dgCall.has
    THEN \E ev \in { [e |-> "go", i |-> m] : m \in Masks(dgCall.labels) }
                     \cup {Ev("x"), Ev("close")} :
            ReturnedAfter(Append(pre, "wpf"), ev,
                          DList(IF ev.e = "go" THEN Pick(dgCall.labels, ev.i) ELSE <<>>))
    ELSE IF "pyrevit" \in dgCall.has
    THEN \E ev \in LabelClicks(dgCall.labels) \cup {Ev("close")} :
            ReturnedAfter(Append(pre, "pyrevit"), ev,
                          DList(PyrevitMultiResult(dgCall.labels, dgCall.all, ev)))
    ELSE ReturnedAfter(Append(pre, "alert"), Ev("none"), DList(<<>>))

\* ada_core_bigbuttons.choose_multi(options, title, message, include_all)
BBChooseMulti ==
    /\ Called("bb.choose_multi")
    /\ IF dgCall.labels = <<>> THEN Returned("alert", Ev("none"), DList(<<>>))
       ELSE IF "v6bb" \in dgCall.has
       THEN \E ev \in V6MultiEvents(dgCall.labels) :
               IF ev.e = "other" THEN ChooseMultiRest(<<"v6">>)
               ELSE Returned("v6", ev, DList(V6MultiResult(dgCall.labels, ev)))
       ELSE ChooseMultiRest(<<>>)

\* ada_bootstrap forms.ask_for_string(prompt, title, default): v6.input_box
\* when ada_brandforms_v6 imports, else the WinForms form; text is what the
\* box holds when the window closes
BootAskForString ==
    /\ Called("boot.ask_for_string")
    /\ IF "v6" \in dgCall.has
       THEN \E ev \in AdaEvents(<<"OK", "Cancel">>) \cup {Ev("textbox-enter")} :
               Returned("v6", ev,
                        IF ev.e = "textbox-enter"
                           \/ AdaResult(<<"OK", "Cancel">>, ev) = DStr("OK")
                        THEN DStr(dgCall.text) ELSE DNone)
       ELSE IF "winforms" \notin dgCall.has THEN Returned("none", Ev("none"), DNone)
       ELSE \E ev \in {Ev("ok"), Ev("cancel"), Ev("close")} :
               Returned("winforms", ev, IF ev.e = "ok" THEN DStr(dgCall.text) ELSE DNone)

\* the shim's _load_forms._Fallback: alert prints, SelectFromList and
\* ask_for_string return None
ShimFallback ==
    /\ dgPc = "called"
    /\ dgCall.fn \in {"fallback.alert", "fallback.SelectFromList", "fallback.ask_for_string"}
    /\ Returned("none", Ev("none"), DNone)

\* ada_brandforms_v6.big_button_box(title, buttons, cancel): the module
\* defines no button_box
V6BigButtonBox ==
    /\ Called("v6.big_button_box")
    /\ IF dgCall.labels = <<>> THEN Returned("none", Ev("none"), DNone)
       ELSE Returned("none", Ev("none"), DRaised("NameError"))

\* forms.big_buttons(title, items, message, cancel)
FormsBigButtons ==
    /\ Called("forms.big_buttons")
    /\ IF "template" \notin dgCall.has THEN Returned("none", Ev("none"), DNone)
       ELSE \E ev \in (IF "panel_buttons" \in dgCall.parts
                       THEN LabelClicks(dgCall.labels) ELSE {})
                      \cup (IF "button_ok" \in dgCall.parts THEN {Ev("ok")} ELSE {})
                      \cup (IF dgCall.cancel /\ "button_cancel" \in dgCall.parts
                            THEN {Ev("cancel")} ELSE {})
                      \cup {Ev("close")} :
               Returned("template", ev,
                        CASE ev.e = "label" -> DStr(dgCall.labels[ev.i])
                          [] ev.e = "ok" -> (IF dgCall.labels # <<>>
                                             THEN DStr(dgCall.labels[1]) ELSE DNone)
                          [] OTHER -> DNone)

\* ada_brandforms_v6.ask_yes_no(msg, title)
V6AskYesNo ==
    /\ Called("v6.ask_yes_no")
    /\ \E ev \in AdaEvents(<<"Yes", "No">>) :
          Returned("v6", ev, DBool(AdaResult(<<"Yes", "No">>, ev) = DStr("Yes")))

\* forms.confirm(message, title, ok_text, cancel_text); without the
\* template, MessageBox.Show(..., MessageBoxButton.OKCancel)
FormsConfirm ==
    /\ Called("forms.confirm")
    /\ IF "template" \notin dgCall.has
       THEN \E ev \in {Ev("ok"), Ev("cancel"), Ev("close")} :
               Returned("messagebox", ev, DBool(ev.e = "ok"))
       ELSE \E ev \in (IF dgCall.parts \cap {"button_yes", "button_ok"} # {}
                       THEN {Ev("yes")} ELSE {})
                      \cup (IF dgCall.parts \cap {"button_no", "button_cancel"} # {}
                            THEN {Ev("no")} ELSE {})
                      \cup {Ev("close")} :
               Returned("template", ev, DBool(ev.e = "yes"))

\* the buttons an alert is given for its keyword flags
KwButtons(kw) ==
    CASE kw = "yesno" -> <<"Yes", "No">>
      [] kw = "okcancel" -> <<"OK", "Cancel">>
      [] OTHER -> <<"OK">>

\* _wrap_v6_alert, v6 imported: _alert(msg, title, **kwargs)
BootAlertV6(kw, ev) ==
    CASE kw = "yesno" -> DBool(AdaResult(KwButtons(kw), ev) = DStr("Yes"))
      [] kw = "okcancel" -> DBool(AdaResult(KwButtons(kw), ev) = DStr("OK"))
      [] OTHER -> AdaResult(KwButtons(kw), ev)

\* the closing events of MessageBox.Show and the DialogResult of each
MessageBoxEvents(kw) ==
    CASE kw = "yesno" -> {Ev("yes"), Ev("no")}
      [] kw = "okcancel" -> {Ev("ok"), Ev("cancel"), Ev("close")}
      [] OTHER -> {Ev("ok"), Ev("close")}

MessageBoxResult(kw, ev) ==
    CASE ev.e = "yes" -> DEnum("Yes")
      [] ev.e = "no" -> DEnum("No")
      [] ev.e = "ok" -> DEnum("OK")
      [] ev.e = "cancel" -> DEnum("Cancel")
      [] OTHER -> (IF kw = "okcancel" THEN DEnum("Cancel") ELSE DEnum("OK"))

\* _wrap_v6_alert, v6 not imported: _alert over MessageBox.Show
BootAlertWF(kw, ev) ==
    IF kw # "none" /\ MessageBoxResult(kw, ev).s \in {"Yes", "OK"} THEN DBool(TRUE)
    ELSE MessageBoxResult(kw, ev)

\* ada_bootstrap forms.alert(msg, title, **kwargs)
BootAlert ==
    /\ Called("boot.alert")
    /\ IF "v6" \in dgCall.has
       THEN \E ev \in AdaEvents(KwButtons(dgCall.kw)) :
               Returned("v6", ev, BootAlertV6(dgCall.kw, ev))
       ELSE IF "winforms" \notin dgCall.has THEN Returned("none", Ev("none"), DBool(TRUE))
       ELSE \E ev \in MessageBoxEvents(dgCall.kw) :
               Returned("messagebox", ev, BootAlertWF(dgCall.kw, ev))

\* ada_bootstrap forms.ask_yes_no(msg, title):
\* True if _alert(msg, title=title, yes=True, no=True) else False
BootAskYesNo ==
    /\ Called("boot.ask_yes_no")
    /\ IF "v6" \in dgCall.has
       THEN \E ev \in AdaEvents(KwButtons("yesno")) :
               Returned("v6", ev, DBool(DTruthy(BootAlertV6("yesno", ev))))
       ELSE IF "winforms" \notin dgCall.has THEN Returned("none", Ev("none"), DBool(TRUE))
       ELSE \E ev \in MessageBoxEvents("yesno") :
               Returned("messagebox", ev, DBool(DTruthy(BootAlertWF("yesno", ev))))

\* ada_brandforms_v6.alert(msg, title, buttons)
V6Alert ==
    /\ Called("v6.alert")
    /\ \E ev \in AdaEvents(KwButtons(dgCall.kw)) :
          Returned("v6", ev, AdaResult(KwButtons(dgCall.kw), ev))

\* the themed popups switched back on
SilentAlertsOff == FALSE

\* gp_ui_shims.SILENT_ALERTS
SILENT_ALERTS == TRUE

\* gp_ui_shims._show_branded_confirm(title, message, buttons, default):
\* val["ret"] after the closing event
BrandedEvents(mode) ==
    CASE mode = "yesno" -> {Ev("yes"), Ev("no"), Ev("x"), Ev("close")}
      [] mode = "yesnocancel" -> {Ev("yes"), Ev("no"), Ev("cancel"), Ev("x"), Ev("close")}
      [] mode = "okcancel" -> {Ev("ok"), Ev("cancel"), Ev("x"), Ev("close")}
      [] OTHER -> {Ev("ok"), Ev("x"), Ev("close")}

BrandedConfirm(mode, ev) ==
    CASE ev.e \in {"yes", "ok"} -> DBool(TRUE)
      [] ev.e = "no" -> DBool(FALSE)
      [] OTHER -> DNone

\* gp_ui_shims._alert_compat(msg, title, **kwargs), installed as forms.alert
ShimAlert ==
    /\ Called("shim.alert")
    /\ IF SILENT_ALERTS THEN Returned("none", Ev("none"), DBool(TRUE))
       ELSE \E ev \in BrandedEvents(dgCall.kw) :
               Returned("winforms", ev,
                        IF dgCall.kw = "none" THEN DBool(TRUE)
                        ELSE BrandedConfirm(dgCall.kw, ev))

\* the closing events of a forms.py template window: a click on a part that
\* is there and wired, or the window closed
TemplateEvents(parts, wired) ==
    { Ev(IF p = "button_ok" THEN "ok" ELSE "cancel") : p \in parts \cap wired }
        \cup {Ev("close")}

\* forms.alert(message, title): returns nothing; without the template,
\* MessageBox.Show(str(message), str(title))
FormsAlert ==
    /\ Called("forms.alert")
    /\ IF "template" \notin dgCall.has
       THEN \E ev \in MessageBoxEvents("none") : Returned("messagebox", ev, DNone)
       ELSE \E ev \in TemplateEvents(dgCall.parts, {"button_ok", "button_cancel"}) :
               Returned("template", ev, DNone)

\* forms.input_text(prompt, title)
FormsInputText ==
    /\ Called("forms.input_text")
    /\ IF "template" \notin dgCall.has THEN Returned("none", Ev("none"), DNone)
       ELSE \E ev \in TemplateEvents(dgCall.parts, {"button_ok", "button_cancel"}) :
               Returned("template", ev,
                        IF ev.e = "ok"
                        THEN DStr(IF "text_input" \in dgCall.parts THEN dgCall.text ELSE "")
                        ELSE DNone)

\* forms.SelectFromList.show(items, ...), single selection; ev.i is the
\* entry selected when OK is clicked (0: none)
FormsSelect ==
    /\ Called("forms.select")
    /\ IF "template" \notin dgCall.has \/ "list_items" \notin dgCall.parts
       THEN Returned("none", Ev("none"), DNone)
       ELSE \E ev \in (IF "button_ok" \in dgCall.parts
                       THEN { [e |-> "ok", i |-> i] : i \in 0..Len(dgCall.labels) }
                       ELSE {})
                      \cup (IF "button_cancel" \in dgCall.parts THEN {Ev("cancel")} ELSE {})
                      \cup {Ev("close")} :
               Returned("template", ev,
                        IF ev.e = "ok" /\ ev.i > 0 THEN DStr(dgCall.labels[ev.i])
                        ELSE DNone)

\* the dictionaries show_dialog gets to merge: those of its order that are
\* there, up to the first one whose loading raises
Merges(root, files) ==
    LET order == MergeOrder(root)
        bad == { i \in 1..Len(order) : files[order[i]].status = "malformed" }
        stop == IF bad = {} THEN Len(order) + 1
                ELSE CHOOSE i \in bad : \A j \in bad : i <= j
        There(f) == files[f].status = "dict"
    IN SelectSeq(SubSeq(order, 1, stop - 1), There)

\* a merged dictionary's loading raised
MergeRaises(root, files) ==
    \E i \in 1..Len(MergeOrder(root)) : files[MergeOrder(root)[i]].status = "malformed"

\* win.Resources[k]: of the merged dictionaries that define k, the one
\* added last
Effective(merged, files) ==
    [k \in HostKeys |->
        LET at == { i \in 1..Len(merged) : k \in files[merged[i]].keys }
        IN IF at = {} THEN "none"
           ELSE merged[CHOOSE i \in at : \A j \in at : j <= i]]

\* wpf_host.show_dialog: _load_window raises IOError
HostNoXaml ==
    /\ Called("host.show_dialog")
    /\ ~dgCall.host.xaml
    /\ Returned("none", Ev("none"), DRaised("IOError"))

\* wpf_host.show_dialog: _merge_dict raises on a malformed dictionary
HostBadTheme ==
    /\ Called("host.show_dialog")
    /\ dgCall.host.xaml
    /\ MergeRaises(dgCall.host.root, dgCall.host.files)
    /\ dgOut' = [ui |-> "none", event |-> Ev("none"), result |-> DRaised("XamlParseException"),
                 log |-> <<"load">> \o Merges(dgCall.host.root, dgCall.host.files),
                 effective |-> Effective(Merges(dgCall.host.root, dgCall.host.files),
                                         dgCall.host.files),
                 shown |-> <<>>]
    /\ dgPc' = "returned"
    /\ UNCHANGED <<outsideDialog, dgCall>>

\* wpf_host.show_dialog: window loaded, dictionaries merged, init(win),
\* ShowDialog(); returns (bool(result), win)
HostShown ==
    /\ Called("host.show_dialog")
    /\ dgCall.host.xaml
    /\ ~MergeRaises(dgCall.host.root, dgCall.host.files)
    /\ \E ev \in {Ev("accept"), Ev("cancel"), Ev("close")} :
          dgOut' = [ui |-> "xaml", event |-> ev, result |-> DBool(ev.e = "accept"),
                    log |-> <<"load">> \o Merges(dgCall.host.root, dgCall.host.files)
                               \o (IF dgCall.host.init THEN <<"init">> ELSE <<>>)
                               \o <<"show">>,
                    effective |-> Effective(Merges(dgCall.host.root, dgCall.host.files),
                                            dgCall.host.files),
                    shown |-> <<"xaml">>]
    /\ dgPc' = "returned"
    /\ UNCHANGED <<outsideDialog, dgCall>>

NextDialogs ==
    \/ HostNoXaml
    \/ HostBadTheme
    \/ HostShown
    \/ BootBigButtonBox
    \/ BBChoose
    \/ V6BigButtonBox
    \/ FormsBigButtons
    \/ V6AskYesNo
    \/ FormsConfirm
    \/ BootAskYesNo
    \/ V6Alert
    \/ BootAlert
    \/ ShimAlert
    \/ FormsAlert
    \/ FormsInputText
    \/ FormsSelect
    \/ BBChooseMulti
    \/ BootAskForString
    \/ ShimFallback

SpecDialog == InitDialog /\ [][NextDialogs]_vars

\* ---------------------------------------------------------------------
\* forms._find: resolving a named part in a loaded window
\* ---------------------------------------------------------------------

\* the largest logical tree under scope, in nodes
MaxNodes == 4

FNone == [found |-> FALSE, node |-> 0]
FNode(k) == [found |-> TRUE, node |-> k]

\* the name looked for, and a name some other control has
TargetName == "x"
NodeNames == {"x", "y"}

\* Logical trees of n nodes: node 1 is scope, parent[k] is the node whose
\* GetChildren yields k, and GetChildren yields a node's children in
\* ascending order.
Trees(n) ==
    { p \in [1..n -> 0..(n - 1)] : p[1] = 0 /\ \A k \in 2..n : p[k] \in 1..(k - 1) }

IsLeaf(parent, k) == \A j \in DOMAIN parent : parent[j] # k

\* What scope.FindName(name) does: scope has no FindName, the call raises,
\* it returns None, or it returns the element registered under the name
\* (node 0 stands for a registered element that is not in the logical tree).
DirectOutcomes(n, names) ==
    { [t |-> "noattr", k |-> 0], [t |-> "raises", k |-> 0], [t |-> "null", k |-> 0] }
        \cup { [t |-> "found", k |-> k] : k \in {0} \cup { j \in 1..n : names[j] = TargetName } }

\* getattr(node, "Name", None)
NameOf(call, k) == IF k = call.plain THEN "None" ELSE call.names[k]

\* LTH.GetChildren(node), as the sequence the loop enumerates
RECURSIVE ChildrenFrom(_, _, _)
ChildrenFrom(call, k, j) ==
    IF j > call.n THEN <<>>
    ELSE (IF call.parent[j] = k THEN <<j>> ELSE <<>>) \o ChildrenFrom(call, k, j + 1)

GetChildren(call, k) == ChildrenFrom(call, k, 1)

\* the walk with the children put in front of the queue (depth first)
EnqueueFront(queue, kids) == kids \o queue

\* for child in LTH.GetChildren(node): queue.append(child)
Enqueue(queue, kids) == queue \o kids

\* plain is a leaf of the tree that is no element (a string, say): it has
\* no Name and LogicalTreeHelper.GetChildren raises on it; 0 when every
\* node is an element.
InitFind ==
    /\ component = "find"
    /\ ParseIdle
    /\ BulkIdle
    /\ SelectIdle
    /\ BackendIdle
    /\ ThemeIdle
    /\ DialogIdle
    /\ PatchIdle
    /\ \E n \in 1..MaxNodes :
         \E p \in Trees(n), nm \in [1..n -> NodeNames] :
            \E pl \in {0} \cup { k \in 2..n : IsLeaf(p, k) }, d \in DirectOutcomes(n, nm) :
               fdIn = [n |-> n, parent |-> p, names |-> nm, plain |-> pl, direct |-> d]
    /\ fdQueue = <<>>
    /\ fdResult = FNone
    /\ fdPc = "direct"

\* the direct lookup: el = scope.FindName(name), returned when not None;
\* anything else (no FindName, an exception, None) starts the walk at scope
FindDirect ==
    /\ fdPc = "direct"
    /\ IF fdIn.direct.t = "found"
       THEN /\ fdResult' = FNode(fdIn.direct.k)
            /\ fdPc' = "returned"
            /\ UNCHANGED fdQueue
       ELSE /\ fdQueue' = <<1>>
            /\ fdPc' = "walk"
            /\ UNCHANGED fdResult
    /\ UNCHANGED <<fdIn, outsideFind>>

\* one turn of "while queue": node = queue.pop(0); return it when its Name
\* is the name; else append its children (a node GetChildren raises on
\* appends nothing, the exception is swallowed)
WalkStep ==
    /\ fdPc = "walk"
    /\ fdQueue # <<>>
    /\ LET node == Head(fdQueue)
       IN IF NameOf(fdIn, node) = TargetName
          THEN /\ fdResult' = FNode(node)
               /\ fdPc' = "returned"
               /\ fdQueue' = Tail(fdQueue)
          ELSE /\ fdQueue' = IF node = fdIn.plain THEN Tail(fdQueue)
                             ELSE Enqueue(Tail(fdQueue), GetChildren(fdIn, node))
               /\ UNCHANGED <<fdResult, fdPc>>
    /\ UNCHANGED <<fdIn, outsideFind>>

\* the queue ran empty: return None
WalkEnd ==
    /\ fdPc = "walk"
    /\ fdQueue = <<>>
    /\ fdResult' = FNone
    /\ fdPc' = "returned"
    /\ UNCHANGED <<fdIn, fdQueue, outsideFind>>

NextFind ==
    \/ FindDirect
    \/ WalkStep
    \/ WalkEnd

SpecFind == InitFind /\ [][NextFind]_vars

\* _find is straight-line code: a call that has started keeps running
SpecFindLive == SpecFind /\ WF_vars(NextFind)

\* ---------------------------------------------------------------------
\* gp_ui_shims: installing the alert wrapper on a forms object
\* ---------------------------------------------------------------------

\* install_ui_shims calls on one forms object
MaxInstalls == 3

\* attribute values: no such attribute, an alert the object came with, the
\* _alert_compat closure that the n-th call of _patch_alert_compat defined
NoAttr == [t |-> "unset", n |-> 0]
OrigAlert(k) == [t |-> "orig", n |-> k]
Compat(n) == [t |-> "compat", n |-> n]

\* the check of _ada_patched_alert left out
PatchAlertCompatUnguarded(forms, n) ==
    IF forms.kind = "none" THEN forms
    ELSE IF ~forms.writable THEN forms
    ELSE [forms EXCEPT !.orig = IF @ = NoAttr THEN forms.alert ELSE @,
                       !.alert = Compat(n),
                       !.patched = TRUE]

\* _patch_alert_compat(forms), called for the n-th time: a setattr on an
\* object that takes no attributes raises and is swallowed
PatchAlertCompat(forms, n) ==
    IF forms.kind = "none" THEN forms
    ELSE IF forms.patched THEN forms
    ELSE IF ~forms.writable THEN forms
    ELSE [forms EXCEPT !.orig = IF @ = NoAttr THEN forms.alert ELSE @,
                       !.alert = Compat(n),
                       !.patched = TRUE]

\* the forms objects handed over: None, or an object with or without an
\* alert of its own that takes new attributes or does not; before is the
\* alert it had when it was made
InitPatch ==
    /\ component = "patch"
    /\ ParseIdle
    /\ BulkIdle
    /\ SelectIdle
    /\ BackendIdle
    /\ ThemeIdle
    /\ DialogIdle
    /\ FindIdle
    /\ \/ pfForms = [kind |-> "none", writable |-> FALSE, alert |-> NoAttr,
                     orig |-> NoAttr, patched |-> FALSE, before |-> NoAttr]
       \/ \E w \in BOOLEAN, a \in {NoAttr, OrigAlert(1), OrigAlert(2)} :
             pfForms = [kind |-> "object", writable |-> w, alert |-> a,
                        orig |-> NoAttr, patched |-> FALSE, before |-> a]
    /\ pfCalls = 0
    /\ pfLast = [via |-> NoAttr, kw |-> "none", result |-> DNone]

\* install_ui_shims(forms)
InstallUiShims ==
    /\ pfCalls < MaxInstalls
    /\ pfCalls' = pfCalls + 1
    /\ pfForms' = PatchAlertCompat(pfForms, pfCalls + 1)
    /\ UNCHANGED <<pfLast, outsidePatch>>

\* forms.alert(msg, **kw) by a script: the wrapper answers True without a
\* window (SILENT_ALERTS), an alert of the object's own answers in its way,
\* a missing attribute raises
CallAlert ==
    /\ pfForms.kind = "object"
    /\ \E kw \in {"none", "yesno", "okcancel", "yesnocancel"} :
          pfLast' = [via |-> pfForms.alert, kw |-> kw,
                     result |-> CASE pfForms.alert.t = "compat" -> DBool(TRUE)
                                  [] pfForms.alert.t = "orig" -> DStr("original")
                                  [] OTHER -> DRaised("AttributeError")]
    /\ UNCHANGED <<pfForms, pfCalls, outsidePatch>>

NextPatch ==
    \/ InstallUiShims
    \/ CallAlert

SpecPatch == InitPatch /\ [][NextPatch]_vars

----------------------------------------------------------------------------
(* Properties of the value functions (checked under SpecParse).            *)

AllBlank(s, lo, hi) == \A i \in lo..hi : s[i] \in Whitespace

\* s without its leading and trailing whitespace, said without recursion:
\* the one slice of s with only whitespace before and after it that neither
\* starts nor ends with whitespace
Trimmed(s) ==
    CHOOSE t \in { SubSeq(s, i, j) : i \in 1..(Len(s) + 1), j \in 0..Len(s) } :
        \E i \in 1..(Len(s) + 1), j \in 0..Len(s) :
            /\ t = SubSeq(s, i, j)
            /\ AllBlank(s, 1, i - 1) /\ AllBlank(s, j + 1, Len(s))
            /\ (i <= j => s[i] \notin Whitespace /\ s[j] \notin Whitespace)
            /\ (i > j => t = <<>> /\ AllBlank(s, 1, Len(s)))

\* the first whitespace-delimited token of s (<<>> when s has none)
FirstToken(s) ==
    IF AllBlank(s, 1, Len(s)) THEN <<>>
    ELSE LET i == CHOOSE k \in 1..Len(s) :
                      s[k] \notin Whitespace /\ AllBlank(s, 1, k - 1)
             j == CHOOSE k \in i..Len(s) :
                      /\ \A x \in i..k : s[x] \notin Whitespace
                      /\ (k = Len(s) \/ s[k + 1] \in Whitespace)
         IN SubSeq(s, i, j)

EqIgnoreCase(a, b) ==
    Len(a) = Len(b) /\ \A i \in 1..Len(a) : LowerChar(a[i]) = LowerChar(b[i])

InWords(s, W) == \E w \in W : EqIgnoreCase(s, w)

\* the "keep" result of the call in hand
KeepOf == IF pvIn.impl = "shim" THEN pvIn.keep ELSE PyNone

Parsed(ptype) == pvPc = "parsed" /\ pvIn.ptype = ptype /\ pvText.t = "str"

C7_TrueWords == { <<"y","e","s">>, <<"t","r","u","e">>, <<"1">>, <<"y">>, <<"t">> }
C7_FalseWords == { <<"n","o">>, <<"f","a","l","s","e">>, <<"0">>, <<"n">>, <<"f">> }
C7_MoreTrueWords == { <<"U2713">>, <<"c","h","e","c","k">>, <<"t","i","c","k">> }
C7_MoreFalseWords == { <<"U2717">>, <<"c","r","o","s","s">>, <<"x">> }

\* C7 as stated: for a bool parameter, every text that is one of yes, true,
\* 1, y, t in any letter case parses to true, every text that is one of no,
\* false, 0, n, f parses to false, and every other text parses to "keep".
C7_BoolParseAsClaimed ==
    Parsed("bool") =>
        LET s == pvText.s
        IN /\ InWords(s, C7_TrueWords) => pvOut = PyBool(TRUE)
           /\ InWords(s, C7_FalseWords) => pvOut = PyBool(FALSE)
           /\ ~InWords(s, C7_TrueWords \cup C7_FalseWords) => pvOut = KeepOf

\* C7 amended: the text is compared without its surrounding whitespace and
\* without regard to letter case; yes, true, 1, y, t, check mark, check, tick
\* parse to true; no, false, 0, n, f, ballot cross, cross, x parse to false;
\* every other text parses to "keep".
C7_BoolParseTotal ==
    Parsed("bool") =>
        LET t == Trimmed(pvText.s)
        IN IF InWords(t, C7_TrueWords \cup C7_MoreTrueWords)
           THEN pvOut = PyBool(TRUE)
           ELSE IF InWords(t, C7_FalseWords \cup C7_MoreFalseWords)
           THEN pvOut = PyBool(FALSE)
           ELSE pvOut = KeepOf

C7_Witness ==
    /\ Parsed("bool")
    /\ pvText.s = <<" ", "F", "a", "L", "S", "e">>
    /\ pvOut = PyBool(FALSE)

\* C8: for a float parameter the result is the number float() reads from the
\* first whitespace-delimited token of the text with every comma turned into
\* a dot, and "keep" when that token does not parse; "15,0 ft" gives 15.0.
C8_FloatFirstToken ==
    Parsed("float") =>
        LET tok == ReplaceCommaDot(FirstToken(pvText.s))
        IN /\ IF tok # <<>> /\ PyFloat(tok).ok
              THEN pvOut = PyNum(PyFloat(tok).num)
              ELSE pvOut = KeepOf
           /\ pvText.s = <<"1","5",",","0"," ","f","t">>
                 => pvOut = PyNum([kind |-> "fin", m |-> 15, e |-> 0])
           /\ pvText.s = <<"1",",","2","3","4",".","5">> => pvOut = KeepOf

C8_Witness ==
    /\ Parsed("float")
    /\ pvText.s = <<"1","5",",","0"," ","f","t">>
    /\ pvOut = PyNum([kind |-> "fin", m |-> 15, e |-> 0])

\* C9 as stated: for a string parameter the result is the text as entered,
\* and it is "keep" exactly when the text is the empty string.
C9_StringRawAsClaimed ==
    Parsed("string") =>
        IF pvText.s = <<>> THEN pvOut = KeepOf ELSE pvOut = PyStr(pvText.s)

\* C9 amended: for a string parameter the result is the text without its
\* leading and trailing whitespace, and it is "keep" exactly when nothing is
\* left (the text is empty or only whitespace).
C9_StringTrimmed ==
    Parsed("string") =>
        LET t == Trimmed(pvText.s)
        IN IF t = <<>> THEN pvOut = KeepOf ELSE pvOut = PyStr(t)

C9_Witness ==
    /\ Parsed("string")
    /\ pvText.s = <<" ", "W", "a", "l", "l", " ", "A", " ">>
    /\ pvOut = PyStr(<<"W", "a", "l", "l", " ", "A">>)

\* |a - b| in units of 10^lo, lo the smaller exponent; -1 when the two are
\* more than nine decades apart
DiffUnits(a, b) ==
    LET lo == IF a.e < b.e THEN a.e ELSE b.e
    IN IF a.e - lo > 9 \/ b.e - lo > 9 THEN -1
       ELSE Abs(a.m * Pow10(a.e - lo) - b.m * Pow10(b.e - lo))

RoundTripped ==
    /\ pvPc = "parsed" /\ pvIn.mode = "display" /\ pvIn.ptype = "float"
    /\ pvIn.value.t = "float"

\* C10 as stated: the display of a numeric current value parses back to the
\* value: exactly when it is integral, and to within floating-point
\* tolerance (a relative error of 1e-9) when it is not.
C10_RoundTripAsClaimed ==
    RoundTripped =>
        LET v == pvIn.value.n
            d == DiffUnits(pvOut.n, v)
        IN /\ pvOut.t = "float" /\ pvOut.n.kind = "fin"
           /\ IsInteger(v) => pvOut.n = v
           /\ d >= 0 /\ d <= Abs(v.m) \div 1000000000

\* C10 amended: the display of a numeric current value parses back to the
\* value rounded to six significant digits: to the value itself when it is
\* integral or has at most six significant digits, and otherwise to a
\* number of at most six significant digits within half a unit of the
\* value's sixth significant digit (a relative error of at most 5e-6).
C10_RoundTripSixDigits ==
    RoundTripped =>
        LET v == pvIn.value.n
            nd == NDigits(Abs(v.m))
            d == DiffUnits(pvOut.n, v)
        IN /\ pvOut.t = "float" /\ pvOut.n.kind = "fin"
           /\ IF IsInteger(v) \/ nd <= 6
              THEN pvOut.n = v
              ELSE /\ NDigits(Abs(pvOut.n.m)) <= 6
                   /\ d >= 0 /\ 2 * d <= Pow10(nd - 6)

C10_Witness ==
    /\ RoundTripped
    /\ pvIn.value.n = [kind |-> "fin", m |-> 12345675, e |-> -1]
    /\ pvIn.unit = <<"f", "t">>
    /\ pvText.s = <<"1",".","2","3","4","5","7","e","+","0","6"," ","f","t">>
    /\ pvOut.n = [kind |-> "fin", m |-> 123457, e |-> 1]

----------------------------------------------------------------------------
(* Properties of the bulk editor sessions (checked under SpecBulk).        *)

\* the pending edit of row i when the session ended (PyNone: "keep"): in the
\* form, what the row's control holds, read by the parsing rules; in the
\* menu loop, the row's "new" entry
PendingEdit(i) ==
    LET p == beParams[i]
        row == beRows[i]
        t == Trimmed(row.text)
        tok == ReplaceCommaDot(FirstToken(t))
    IN IF beImpl = "shim" THEN row.new
       ELSE IF p.ptype = "bool"
       THEN (CASE row.check = "Checked" -> PyBool(TRUE)
               [] row.check = "Unchecked" -> PyBool(FALSE)
               [] OTHER -> PyNone)
       ELSE IF t = <<>> THEN PyNone
       ELSE IF p.ptype = "float"
       THEN (IF PyFloat(tok).ok THEN PyNum(PyFloat(tok).num) ELSE PyNone)
       ELSE PyStr(t)

Applied == bePc = "returned" /\ beSel \in {"OK", "Apply"}

\* C6: when a session is applied (OK / Apply) the result is a ChangeSet
\* whose keys are exactly the names of the parameters whose pending edit is
\* not "keep", each mapped to the parsed new value; so a session applied
\* with every row at "keep" returns the empty ChangeSet.
C6_ChangeSetOnlyEdits ==
    Applied =>
        /\ beResult.t = "dict"
        /\ DOMAIN beResult.m =
              { beParams[i].name : i \in { k \in 1..Len(beParams) :
                                             PendingEdit(k) # PyNone } }
        /\ \A i \in 1..Len(beParams) :
              PendingEdit(i) # PyNone => beResult.m[beParams[i].name] = PendingEdit(i)
        /\ (\A i \in 1..Len(beParams) : PendingEdit(i) = PyNone)
              => beResult = ResDict(<<>>)

C6_Witness ==
    /\ Applied
    /\ Len(beParams) = 2
    /\ beParams[1].name = "Width" /\ beParams[2].name = "Flag"
    /\ PendingEdit(1) = PyNum([kind |-> "fin", m |-> 15, e |-> 0])
    /\ PendingEdit(2) = PyNone
    /\ DOMAIN beResult.m = {"Width"}
    /\ beResult.m["Width"] = PyNum([kind |-> "fin", m |-> 15, e |-> 0])

\* the session was abandoned: Cancel, Escape, the close control, or the
\* shim's menu dismissed without a selection
Abandoned == bePc = "returned" /\ beSel \in {"Cancel", "None"}

\* C26: an abandoned bulk-edit session returns None whatever edits are
\* pending, in the WinForms form and in the shim's menu loop alike; never a
\* ChangeSet, partial or empty.
C26_AbandonedReturnsNone ==
    Abandoned => beResult = ResNone

\* the shim's menu dismissed with no selection while Width is pending at 15
C26_Witness ==
    /\ Abandoned
    /\ beImpl = "shim" /\ beSel = "None"
    /\ Len(beParams) = 2
    /\ beParams[1].name = "Width"
    /\ PendingEdit(1) = PyNum([kind |-> "fin", m |-> 15, e |-> 0])
    /\ beResult = ResNone

\* one pass of the shim's loop that stays in the loop
ShimLoopStep == beImpl = "shim" /\ bePc = "open" /\ bePc' = "open"

\* C28: one edit step of the shim's loop changes the pending edit of the row
\* whose menu line the user selected and of no other row, and changes no
\* parameter's current value; this with two rows rendering the same menu
\* line too.
C28_EditOnlySelectedRow ==
    [][ShimLoopStep =>
          /\ \A i \in 1..Len(beRows) :
                i # beAsk'.k - 3 => beRows'[i] = beRows[i]
          /\ beParams' = beParams]_vars

\* an answer that the prompt of parameter p takes as "keep": nothing chosen
\* or entered (cancel), "Keep (no change)", blank text, or for a float text
\* whose first token is no number
KeepAnswer(p, raw) ==
    IF raw = PyNone THEN TRUE
    ELSE IF p.ptype = "bool" THEN raw.s = KeepChoice
    ELSE LET t == Trimmed(raw.s)
         IN \/ t = <<>>
            \/ p.ptype = "float" /\ ~PyFloat(ReplaceCommaDot(FirstToken(t))).ok

\* C29: in the shim's loop an answer of cancel, blank text, unparsable text
\* or "Keep (no change)" to a row's prompt leaves that row's pending edit at
\* "keep", whatever new value it held before; and Apply leaves every row
\* at "keep" out of the ChangeSet.
C29_KeepAnswerResetsRow ==
    /\ [][(ShimLoopStep /\ beAsk'.k # 0) =>
             LET idx == RowOf(beItems, beItems[beAsk'.k], Len(beRows))
             IN KeepAnswer(beParams[idx], beAsk'.raw)
                   => beRows'[idx].new = PyNone]_vars
    /\ []((Applied /\ beImpl = "shim")
             => \A i \in 1..Len(beParams) :
                   beRows[i].new = PyNone
                      => beParams[i].name \notin DOMAIN beResult.m)

\* Width held 15, its prompt was then answered "abc", and Apply returned
\* the empty ChangeSet
C29_Witness ==
    /\ Applied /\ beImpl = "shim"
    /\ Len(beParams) = 1 /\ beParams[1].name = "Width"
    /\ beAsk.k = 4
    /\ beAsk.was = PyNum([kind |-> "fin", m |-> 15, e |-> 0])
    /\ beAsk.raw = PyStr(<<"a","b","c">>)
    /\ beRows[1].new = PyNone
    /\ beResult = ResDict(<<>>)

----------------------------------------------------------------------------
(* Properties of list selection (checked under SpecSelect).                *)

CancelPaths ==
    {"cancel", "escape", "close", "template_missing", "part_missing"}

\* C5: on every cancel path of a list-select dialog (Cancel button, window
\* close, Escape, template or part missing) the result is the empty list
\* when multiselect is true and None when it is false, in each of
\* v6.select_from_list, forms.SelectFromList.show and _WFSelect.show.
C5_CancelResultByMode ==
    (slPc = "returned" /\ slHow \in CancelPaths) =>
        slResult = IF slCall.multiselect THEN RList(<<>>) ELSE RNone

\* ft occurs in text, letters compared without regard to case
OccursIgnoringCase(ft, text) ==
    \E i \in 0..(Len(text) - Len(ft)) :
        EqIgnoreCase(SubSeq(text, i + 1, i + Len(ft)), ft)

\* the positions of the input items that the filter text lets through
Passing ==
    { i \in 1..Len(slCall.items) :
        OccursIgnoringCase(slFilter, Display(slCall, slCall.items[i])) }

\* C13: while a v6 list dialog is open, the entries shown are exactly the
\* input items whose display string contains the filter text as a
\* case-insensitive substring, in their original order (all of them when the
\* filter is empty).
C13_FilterShowsMatches ==
    (slCall.impl = "v6" /\ slPc = "open")
        => /\ Len(slShown) = Cardinality(Passing)
           /\ \A k \in 1..Len(slShown) :
                 \E i \in Passing :
                    /\ Cardinality({ j \in Passing : j <= i }) = k
                    /\ slShown[k].tag = slCall.items[i]
                    /\ slShown[k].text = Display(slCall, slCall.items[i])

C13_Witness ==
    /\ slCall.impl = "v6" /\ slPc = "open"
    /\ slCall.name_attr
    /\ slFilter = <<"a">>
    /\ Len(slCall.items) = 2
    /\ Len(slShown) = 1
    /\ slShown[1].text = <<"A", "b">>
    /\ slShown[1].tag = slCall.items[2]

\* the original items behind the selected entries
SelectedObjs == { Obj(slShown[slSelected[k]].tag) : k \in 1..Len(slSelected) }

\* C25: when the user selects entries of a v6 or forms.py list dialog and
\* accepts, the result is the original item behind the selected entry
\* (single) or holds exactly the original items behind the selected entries
\* (multi), also with duplicate display strings and with name_attr set.
C25_ReturnsSelectedObjects ==
    (/\ slPc = "returned"
     /\ slHow \in {"ok", "enter"}
     /\ slCall.impl \in {"v6", "forms"}
     /\ slSelected # <<>>)
        => IF slCall.multiselect
           THEN /\ slResult.t = "list"
                /\ Len(slResult.v) = Len(slSelected)
                /\ { slResult.v[k] : k \in 1..Len(slResult.v) } = SelectedObjs
           ELSE slResult = ROne(Obj(slShown[slSelected[1]].tag))

\* C30: in v6.select_from_list a change of the filter text empties the
\* selection, so that after OK every returned item is shown under the
\* filter text then in force and was selected after the last filter change.
C30_SelectionDroppedOnFilter ==
    /\ [][slFilter' # slFilter => slSelected' = <<>>]_vars
    /\ []((slCall.impl = "v6" /\ slPc = "returned" /\ slHow \in {"ok", "enter"})
            => \A k \in 1..Len(slResult.v) :
                  /\ \E i \in Passing : slResult.v[k] = Obj(slCall.items[i])
                  /\ \E j \in 1..Len(slSelected) :
                        slResult.v[k] = Obj(slShown[slSelected[j]].tag))

\* OK with one entry selected under the filter "a" while the input holds an
\* item the filter hides
C30_Witness ==
    /\ slCall.impl = "v6" /\ slPc = "returned" /\ slHow = "ok"
    /\ slCall.multiselect
    /\ slFilter = <<"a">>
    /\ Len(slCall.items) = 2
    /\ Len(slShown) = 1
    /\ slSelected = <<1>>
    /\ slResult = RList(<<Obj(slShown[1].tag)>>)

----------------------------------------------------------------------------
(* Properties of the backend chains (checked under SpecBackend).           *)

C2_LoadOrder == <<"v6", "bootstrap", "pyrevit", "fallback">>
C2_AlertOrder == <<"v6", "pyrevit", "taskdialog", "console">>

\* a candidate is available to _load_forms when its module can be imported,
\* and to alert when moreover its alert call succeeds; the last candidate of
\* each order (the built-in fallback, the console) always is
C2_Available(op, tier, e) ==
    /\ tier = "v6" => e.v6 # "missing"
    /\ tier = "pyrevit" => e.pyrevit # "missing"
    /\ tier = "bootstrap" => e.bootstrap
    /\ (op = "alert" /\ tier \in WorkTiers) => e.works[tier]

C2_First(op, order, e) ==
    order[CHOOSE i \in 1..Len(order) :
             /\ C2_Available(op, order[i], e)
             /\ \A j \in 1..(i - 1) : ~C2_Available(op, order[j], e)]

\* C2: _load_forms yields the first importable of v6, ada_bootstrap, pyrevit
\* and else the built-in fallback; bigbuttons.alert uses the first working of
\* v6, pyrevit, TaskDialog and else the console; every candidate before the
\* one used was tried and was unavailable.
C2_FirstAvailableInOrder ==
    [][ /\ ShimImport =>
            /\ FORMS' = C2_First("load_forms", C2_LoadOrder, env)
            /\ lastCall'.tier = FORMS'
            /\ \A i \in 1..Len(lastCall'.probes) :
                   /\ lastCall'.probes[i] = C2_LoadOrder[i]
                   /\ lastCall'.probes[i] # FORMS'
                         => ~C2_Available("load_forms", C2_LoadOrder[i], env)
        /\ Alert =>
            /\ lastCall'.tier = C2_First("alert", C2_AlertOrder, env)
            /\ \A i \in 1..Len(lastCall'.probes) :
                   /\ lastCall'.probes[i] = C2_AlertOrder[i]
                   /\ lastCall'.probes[i] # lastCall'.tier
                         => ~C2_Available("alert", C2_AlertOrder[i], env)
      ]_vars

C2_Witness ==
    /\ FORMS = "pyrevit"
    /\ lastCall.op = "alert"
    /\ lastCall.tier = "taskdialog"
    /\ lastCall.probes = <<"v6", "pyrevit", "taskdialog">>
    /\ env.v6 = "loaded" /\ env.pyrevit = "loaded"

\* the tiers that are a dialog backend
BackendTiers ==
    {"v6", "wpf", "pyrevit", "taskdialog", "winforms", "bootstrap", "fallback",
     "console"}

DialogStep == Alert \/ Choose \/ ChooseMulti \/ BigButtonBox \/ ShimDialog

ClaimedSafeOps ==
    {"alert", "choose", "choose_multi", "big_button_box", "load_forms"}

\* C4: whatever is missing or failing, bigbuttons.alert, choose,
\* choose_multi, _big_button_box and _load_forms return normally: no
\* exception of a tier reaches the caller.
C4_NeverPropagates ==
    lastCall.op \in ClaimedSafeOps => ~lastCall.raised

C4_Witness ==
    /\ lastCall.op = "choose" /\ lastCall.opts = "some"
    /\ lastCall.probes = <<"v6", "wpf", "pyrevit", "taskdialog">>
    /\ lastCall.tier = "default"
    /\ ~lastCall.raised
    /\ env.v6 = "loaded" /\ env.v6bb /\ ~env.works["v6"]

----------------------------------------------------------------------------
(* Properties of theme composition (checked under SpecTheme).              *)

\* the keys that carry each required token
TokenKeys(token) ==
    CASE token = "background" -> {"Ada.Background"}
      [] token = "primary accent" -> {"Ada.Primary", "Ada.PrimaryBrush"}
      [] token = "secondary accent" -> {"Ada.Secondary"}
      [] token = "foreground" -> {"Ada.PrimaryBrush.Fg"}
      [] token = "corner radius" -> {"Ada.Radius"}
      [] token = "padding" -> {"Ada.Padding"}

RequiredTokens ==
    {"background", "primary accent", "secondary accent", "foreground",
     "corner radius", "padding"}

\* C1: once _load_win / _merge_theme has composed a window's resource scope,
\* every required token (background, primary accent, secondary accent,
\* foreground, corner radius, padding) resolves in it, whatever Theme.xaml
\* was: absent, malformed, partial or complete.
C1_RequiredTokensPresent ==
    thPc = "done" =>
        \A token \in RequiredTokens :
            \E k \in TokenKeys(token) : thScope[k] # "none"

----------------------------------------------------------------------------
(* Properties of the modal dialogs (checked under SpecDialog).             *)

\* the user clicked the button of a label
ClickedLabel == dgOut.event.e = "label"

\* the user left through the close mark, Escape, a Cancel button or the
\* window being closed
Dismissed(footer) ==
    \/ dgOut.event.e \in {"x", "escape", "close", "cancel"}
    \/ dgOut.event.e = "footer" /\ Footer(footer)[dgOut.event.i] = "Cancel"

\* C11: in _big_button_box, bigbuttons.choose and v6.big_button_box over a
\* non-empty list of labels, the call does not raise, a click on the button
\* of label L returns L, and closing the window (close mark, Escape, Cancel)
\* returns null.
C11_ClickReturnsLabel ==
    (/\ dgPc = "returned"
     /\ dgCall.fn \in {"boot.big_button_box", "bb.choose", "v6.big_button_box"}
     /\ dgCall.labels # <<>>)
        => /\ dgOut.result.t # "raised"
           /\ ClickedLabel => dgOut.result = DStr(dgCall.labels[dgOut.event.i])
           /\ Dismissed(<<"Cancel">>) => dgOut.result = DNone

\* C12: forms.big_buttons and _big_button_box return a label only when the
\* user clicked that label's own button; after OK, Cancel, Enter, Escape or
\* a window close without such a click the result is null.
C12_LabelOnlyByItsButton ==
    (dgPc = "returned" /\ dgCall.fn \in {"forms.big_buttons", "boot.big_button_box"})
        => IF ClickedLabel THEN dgOut.result = DStr(dgCall.labels[dgOut.event.i])
           ELSE dgOut.result = DNone

\* the user chose the affirmative button (Enter activates it in v6)
Affirmative ==
    \/ dgOut.event.e = "yes"
    \/ dgOut.event.e = "ok" /\ dgOut.ui = "messagebox"
    \/ dgOut.event.e = "footer" /\ dgOut.event.i = 1
    \/ dgOut.event.e = "enter"

\* C14: v6.ask_yes_no, forms.confirm and both ada_bootstrap ask_yes_no
\* variants return a boolean, true exactly when the user chose the
\* affirmative button and false for No, Cancel, Escape or a window close.
C14_ConfirmIsBoolean ==
    (dgPc = "returned"
     /\ dgCall.fn \in {"v6.ask_yes_no", "forms.confirm", "boot.ask_yes_no"})
        => /\ dgOut.result.t = "bool"
           /\ dgOut.result.b <=> Affirmative

\* C15: an alert returns a boolean or null on every backend, and null
\* exactly when the dialog was dismissed without an explicit choice (close
\* mark, Escape, window close).
C15_AlertBoolOrNull ==
    (dgPc = "returned" /\ dgCall.fn \in {"v6.alert", "boot.alert", "shim.alert"})
        => /\ dgOut.result.t \in {"none", "bool"}
           /\ dgOut.result = DNone <=> dgOut.event.e \in {"x", "escape", "close"}

FormsDialogs ==
    {"forms.alert", "forms.confirm", "forms.input_text", "forms.big_buttons",
     "forms.select"}

\* what a forms.py dialog returns when it is cancelled
CancelledValue(fn) == IF fn = "forms.confirm" THEN DBool(FALSE) ELSE DNone

\* C17: a forms.py dialog whose template lacks a named part is still shown,
\* does not raise, and returns its cancelled value when the window is
\* closed (null for alert without a button_cancel part).
C17_MissingPartStillShown ==
    (/\ dgPc = "returned"
     /\ dgCall.fn \in FormsDialogs
     /\ "template" \in dgCall.has
     /\ dgCall.parts # PartsOf(dgCall.fn))
        => /\ dgOut.ui = "template"
           /\ dgOut.result.t # "raised"
           /\ dgOut.event.e = "close" => dgOut.result = CancelledValue(dgCall.fn)

\* C18: with the dialog's template file missing, forms.alert, confirm,
\* input_text, big_buttons, SelectFromList.show and wpf_host.show_dialog do
\* not raise to the caller.
C18_MissingTemplateNeverRaises ==
    (/\ dgPc = "returned"
     /\ \/ dgCall.fn \in FormsDialogs /\ "template" \notin dgCall.has
        \/ dgCall.fn = "host.show_dialog" /\ ~dgCall.host.xaml)
        => dgOut.result.t # "raised"

\* C19: in wpf_host.show_dialog, theme files that are missing or malformed
\* contribute nothing and raise nothing: the dialog is still shown.
C19_ThemeLoadBestEffort ==
    (dgPc = "returned" /\ dgCall.fn = "host.show_dialog" /\ dgCall.host.xaml)
        => /\ dgOut.result.t # "raised"
           /\ dgOut.ui = "xaml"
           /\ \A i \in 1..Len(dgOut.log) :
                 dgOut.log[i] \in DOMAIN dgCall.host.files
                    => dgCall.host.files[dgOut.log[i]].status = "dict"

C20_Order ==
    <<"root/Theme.xaml", "root/Controls.xaml", "local/Theme.xaml", "local/Controls.xaml">>

C20_Pos(f) == CHOOSE i \in 1..Len(C20_Order) : C20_Order[i] = f

\* the files show_dialog is to merge: those that are there, the two under
\* theme_root only when theme_root is given
C20_ToMerge ==
    { f \in DOMAIN dgCall.host.files :
        /\ dgCall.host.files[f].status = "dict"
        /\ f \in {"root/Theme.xaml", "root/Controls.xaml"} => dgCall.host.root }

\* C20: when wpf_host.show_dialog shows its window, the dictionaries were
\* merged in the order theme_root/Theme.xaml, theme_root/Controls.xaml,
\* local Theme.xaml, local Controls.xaml, absent files skipped; a key defined
\* in several of them has the value of the one merged last; and every merge
\* precedes init and the showing of the window.
C20_MergeOrderLaterWins ==
    (dgPc = "returned" /\ dgCall.fn = "host.show_dialog" /\ dgOut.ui = "xaml")
        => LET log == dgOut.log
               IsFile(e) == e \in DOMAIN dgCall.host.files
               merged == SelectSeq(log, IsFile)
           IN /\ { merged[i] : i \in 1..Len(merged) } = C20_ToMerge
              /\ \A i, j \in 1..Len(merged) :
                    i < j => C20_Pos(merged[i]) < C20_Pos(merged[j])
              /\ \A k \in HostKeys :
                    LET defs == { f \in C20_ToMerge : k \in dgCall.host.files[f].keys }
                    IN IF defs = {} THEN dgOut.effective[k] = "none"
                       ELSE /\ dgOut.effective[k] \in defs
                            /\ \A f \in defs : C20_Pos(f) <= C20_Pos(dgOut.effective[k])
              /\ log[Len(log)] = "show"
              /\ dgCall.host.init <=> (\E i \in 1..Len(log) : log[i] = "init")
              /\ \A i, j \in 1..Len(log) :
                    (IsFile(log[i]) /\ log[j] \in {"init", "show"}) => i < j

C20_Witness ==
    /\ dgPc = "returned" /\ dgCall.fn = "host.show_dialog"
    /\ dgCall.host.root /\ dgCall.host.init
    /\ dgOut.log = <<"load", "root/Theme.xaml", "local/Theme.xaml", "init", "show">>
    /\ dgCall.host.files["root/Theme.xaml"].keys = {"Ada.Primary"}
    /\ dgCall.host.files["local/Theme.xaml"].keys = {"Ada.Primary"}
    /\ dgOut.effective["Ada.Primary"] = "local/Theme.xaml"

\* the operations of the last-resort tiers: ada_bootstrap's forms without
\* ada_brandforms_v6 and without WinForms, bigbuttons without any of its
\* windows, and the shim's _Fallback
NoBackendCall ==
    /\ dgCall.fn \in {"boot.alert", "boot.ask_yes_no", "boot.ask_for_string",
                      "boot.big_button_box", "bb.choose", "bb.choose_multi",
                      "fallback.alert", "fallback.SelectFromList",
                      "fallback.ask_for_string"}
    /\ dgCall.has = {}

\* C21: with no UI backend usable a dialog operation does not raise and
\* returns its "no interaction possible" result: null for text input, list
\* select and the big-button chooser (or the default given to choose), the
\* empty list for choose_multi, and for ask_yes_no and an alert with
\* decision flags never the affirmative answer.
C21_NoBackendNoAnswer ==
    (dgPc = "returned" /\ NoBackendCall)
        => /\ dgOut.result.t # "raised"
           /\ dgCall.fn \in {"boot.ask_for_string", "boot.big_button_box",
                             "fallback.SelectFromList", "fallback.ask_for_string"}
                 => dgOut.result = DNone
           /\ dgCall.fn = "bb.choose" => dgOut.result \in {DNone, dgCall.default}
           /\ dgCall.fn = "bb.choose_multi" => dgOut.result = DList(<<>>)
           /\ (dgCall.fn = "boot.ask_yes_no"
                  \/ (dgCall.fn = "boot.alert" /\ dgCall.kw # "none"))
                 => dgOut.result # DBool(TRUE)

C23_SilentAlertReturnsTrue ==
    (dgPc = "returned" /\ dgCall.fn = "shim.alert")
        => dgOut.shown = <<>> /\ dgOut.ui = "none" /\ dgOut.result = DBool(TRUE)

C23_Witness ==
    /\ dgPc = "returned"
    /\ dgCall.fn = "shim.alert"
    /\ dgCall.kw = "yesnocancel"
    /\ dgOut.result = DBool(TRUE)
    /\ dgOut.shown = <<>>

\* C27: choose_multi returns a list whose elements are all among the
\* options, on every path and for every user action; without options the
\* list is empty.
C27_ChooseMultiListOfOptions ==
    (dgPc = "returned" /\ dgCall.fn = "bb.choose_multi")
        => /\ dgOut.result.t = "list"
           /\ \A i \in 1..Len(dgOut.result.l) : IsOption(dgOut.result.l[i], dgCall.labels)
           /\ dgCall.labels = <<>> => dgOut.result.l = <<>>

\* big_buttons_multi returned a list holding "A" and a string that is no
\* option; choose_multi returned ["A"]
C27_Witness ==
    /\ dgPc = "returned"
    /\ dgCall.fn = "bb.choose_multi"
    /\ dgCall.labels = <<"A", "B">>
    /\ dgOut.event = [e |-> "listz", i |-> 1]
    /\ dgOut.result = DList(<<"A">>)

\* ---------------------------------------------------------------------
\* Properties of forms._find (checked under SpecFindLive)
\* ---------------------------------------------------------------------

RECURSIVE Depth(_)
Depth(k) == IF fdIn.parent[k] = 0 THEN 0 ELSE 1 + Depth(fdIn.parent[k])

\* a comes before b in breadth-first order: it is nearer to scope, or as
\* near and to the left
RECURSIVE LeftOf(_, _)
LeftOf(a, b) ==
    IF fdIn.parent[a] = fdIn.parent[b] THEN a < b
    ELSE LeftOf(fdIn.parent[a], fdIn.parent[b])

BreadthFirstBefore(a, b) ==
    \/ Depth(a) < Depth(b)
    \/ Depth(a) = Depth(b) /\ a # b /\ LeftOf(a, b)

Named == { k \in 1..fdIn.n : k # fdIn.plain /\ fdIn.names[k] = TargetName }

FindCorrect ==
    IF fdIn.direct.t = "found" THEN fdResult = FNode(fdIn.direct.k)
    ELSE IF Named = {} THEN fdResult = FNone
    ELSE /\ fdResult.found
         /\ fdResult.node \in Named
         /\ \A k \in Named \ {fdResult.node} : BreadthFirstBefore(fdResult.node, k)

\* C16: _find returns what the direct name-scope lookup found when it
\* found something; otherwise the first node in breadth-first order from
\* scope whose Name is the name; otherwise None. Every call returns.
C16_FindDirectThenBreadthFirst ==
    /\ [](fdPc = "returned" => FindCorrect)
    /\ <>(fdPc = "returned")

\* the walk returned node 3, a child of scope, although node 4, a
\* grandchild through node 2, has the name too
C16_Witness ==
    /\ fdPc = "returned"
    /\ fdIn.n = 4
    /\ fdIn.direct.t = "null"
    /\ fdIn.parent = <<0, 1, 1, 2>>
    /\ Named = {3, 4}
    /\ fdResult = FNode(3)

\* ---------------------------------------------------------------------
\* Properties of gp_ui_shims (checked under SpecPatch)
\* ---------------------------------------------------------------------

\* the first install_ui_shims call took effect
Installed == pfCalls >= 1 /\ pfForms.kind = "object" /\ pfForms.writable

\* C24: after any number of install_ui_shims calls on one forms object,
\* forms.alert is the wrapper the first call installed, forms._ada_orig_alert
\* is the alert the object had before that call, and a call after the first
\* changes nothing.
C24_PatchIdempotent ==
    /\ [](Installed => /\ pfForms.alert = Compat(1)
                       /\ pfForms.orig = pfForms.before
                       /\ pfForms.patched)
    /\ [][(pfCalls >= 1 /\ pfCalls' = pfCalls + 1) => pfForms' = pfForms]_vars

C24_Witness ==
    /\ pfCalls = 3
    /\ pfForms.alert = Compat(1)
    /\ pfForms.orig = OrigAlert(1)
    /\ pfLast.via = Compat(1)

====
